---------------------------- MODULE Spec2Model ----------------------------
(***************************************************************************)
(* Retargeting pipeline of depth-motion-capture: the results handler of    *)
(* MotionCapturer.jsx and the solver modules it imports.                   *)
(*                                                                         *)
(* Numbers.  Lengths are integers in units of 0.001 (a landmark coordinate *)
(* 0.3 is 300), angles are integers in milliradians (Pi is 3142), weights  *)
(* in [0,1] are integers in thousandths.  Math.sqrt, Math.atan2, Math.acos *)
(* and Math.asin are computed to that resolution (ISqrt, Atan2, Acos,      *)
(* Asin below); products are rounded toward zero.                          *)
(***************************************************************************)
EXTENDS Integers, Sequences, FiniteSets, TLC

(***************************************************************************)
(* JavaScript values that are not numbers or objects.                      *)
(***************************************************************************)
Null == [null |-> TRUE]
Undefined == [undefined |-> TRUE]
Threw == [threw |-> TRUE]

Truthy(v) == v # Null /\ v # Undefined

(***************************************************************************)
(* Arithmetic.                                                             *)
(***************************************************************************)
Pi == 3142
HalfPi == 1571

Abs(n) == IF n < 0 THEN -n ELSE n
Min2(a, b) == IF a < b THEN a ELSE b
Max2(a, b) == IF a > b THEN a ELSE b
Clamp(lo, hi, v) == Max2(lo, Min2(hi, v))

\* a * num / den, rounded toward zero (symmetric in the sign of a)
Scale(a, num, den) == IF a < 0 THEN -((-a * num) \div den) ELSE (a * num) \div den

RECURSIVE SqrtSearch(_, _, _)
SqrtSearch(n, lo, hi) ==
    IF lo >= hi THEN lo
    ELSE LET mid == (lo + hi + 1) \div 2
         IN  IF mid * mid <= n THEN SqrtSearch(n, mid, hi)
             ELSE SqrtSearch(n, lo, mid - 1)

\* Math.sqrt: floor of the square root
ISqrt(n) == SqrtSearch(n, 0, Min2(n, 46340))

\* Math.sqrt(dx*dx + dy*dy + dz*dz)
Length3(dx, dy, dz) == ISqrt(dx * dx + dy * dy + dz * dz)

\* atan(t / 1000) for 0 <= t <= 1000, in milliradians
AtanUnit(t) == (785 * t + (273 * t * (1000 - t)) \div 1000) \div 1000

\* Math.atan2(y, x) in milliradians.  xNegZero tells that a zero x is the
\* IEEE negative zero (the code passes -dy, and -(+0) is -0): atan2(+0, -0)
\* is Pi, atan2(+0, +0) is 0.
Atan2(y, x, xNegZero) ==
    LET ay == Abs(y)
        ax == Abs(x)
        a  == IF ay = 0 /\ ax = 0 THEN 0
              ELSE IF ay <= ax THEN AtanUnit((ay * 1000) \div ax)
              ELSE HalfPi - AtanUnit((ax * 1000) \div ay)
        b  == IF x < 0 \/ (x = 0 /\ xNegZero /\ y = 0) THEN Pi - a ELSE a
    IN  IF y < 0 THEN -b ELSE b

\* Math.acos(c / 1000) for -1000 <= c <= 1000
Acos(c) == Atan2(ISqrt(1000000 - c * c), c, FALSE)

\* Math.asin(c / 1000) for -1000 <= c <= 1000
Asin(c) == Atan2(c, ISqrt(1000000 - c * c), FALSE)

(***************************************************************************)
(* constants/landmarks.js                                                  *)
(***************************************************************************)
NOSE == 0
LEFT_SHOULDER == 11
RIGHT_SHOULDER == 12
LEFT_ELBOW == 13
RIGHT_ELBOW == 14
LEFT_WRIST == 15
RIGHT_WRIST == 16
LEFT_HIP == 23
RIGHT_HIP == 24

INDEX_FINGER_MCP == 5
PINKY_MCP == 17

ARM_Z_OFFSET == HalfPi + 400
\* ARM_X_SCALE is 1.2
ARM_X_SCALE_NUM == 12
\* the length guard 0.01 of the arm solver
EPSILON == 10

(***************************************************************************)
(* Arrays: a JavaScript array is [length, items]; lm[i] is At(lm, i),      *)
(* undefined past the end.                                                 *)
(***************************************************************************)
Array(items) == [length |-> Len(items), items |-> items]
At(arr, i) == IF i < arr.length THEN arr.items[i + 1] ELSE Undefined

\* arr.slice(from, to)
slice(arr, from, to) == Array(SubSeq(arr.items, from + 1, to))

Pt(x, y, z) == [x |-> x, y |-> y, z |-> z]
ZeroTriple == [x |-> 0, y |-> 0, z |-> 0]

(***************************************************************************)
(* utils/poseCalculations.js: calculateArmRotations, the module the        *)
(* results handler imports.  It takes the world landmarks only: further    *)
(* arguments of a call are ignored.                                        *)
(***************************************************************************)
\* one arm block (lines 27-71 for the right arm, 74-114 for the left)
ArmBlock(shoulder, elbow, wrist, isRight) ==
    LET dx == elbow.x - shoulder.x
        dy == elbow.y - shoulder.y
        dz == elbow.z - shoulder.z
        horizontalDist == ISqrt(dx * dx + dz * dz)
        angleZ == Atan2(horizontalDist, -dy, dy = 0)
        upperZ == IF isRight THEN -(angleZ - ARM_Z_OFFSET) ELSE angleZ - ARM_Z_OFFSET
        upperX == IF horizontalDist > 0
                  THEN Scale(Atan2(dz, Abs(dx), FALSE), ARM_X_SCALE_NUM, 10)
                  ELSE 0
        upperLen == Length3(dx, dy, dz)
        lowerDx == wrist.x - elbow.x
        lowerDy == wrist.y - elbow.y
        lowerDz == wrist.z - elbow.z
        lowerLen == Length3(lowerDx, lowerDy, lowerDz)
        dot == dx * lowerDx + dy * lowerDy + dz * lowerDz
        elbowAngle == Acos(Clamp(-1000, 1000, Scale(dot, 1000, upperLen * lowerLen)))
        lowerZ == IF upperLen > 0 /\ lowerLen > 0
                  THEN (IF isRight THEN elbowAngle ELSE -elbowAngle)
                  ELSE 0
    IN  [UpperArm |-> [x |-> upperX, y |-> 0, z |-> upperZ],
         LowerArm |-> [x |-> 0, y |-> 0, z |-> lowerZ]]

ZeroArm == [UpperArm |-> ZeroTriple, LowerArm |-> ZeroTriple]

\* the solver with the wrist left out of the guard of an arm
calculateArmRotationsPartial(worldLandmarks) ==
    LET lm == worldLandmarks
        rShoulder == At(lm, RIGHT_SHOULDER)
        rElbow == At(lm, RIGHT_ELBOW)
        rWrist == At(lm, RIGHT_WRIST)
        lShoulder == At(lm, LEFT_SHOULDER)
        lElbow == At(lm, LEFT_ELBOW)
        lWrist == At(lm, LEFT_WRIST)
        right == IF Truthy(rShoulder) /\ Truthy(rElbow)
                 THEN ArmBlock(rShoulder, rElbow,
                               IF Truthy(rWrist) THEN rWrist ELSE rElbow, TRUE)
                 ELSE ZeroArm
        left == IF Truthy(lShoulder) /\ Truthy(lElbow)
                THEN ArmBlock(lShoulder, lElbow,
                              IF Truthy(lWrist) THEN lWrist ELSE lElbow, FALSE)
                ELSE ZeroArm
    IN  [RightUpperArm |-> right.UpperArm, LeftUpperArm |-> left.UpperArm,
         RightLowerArm |-> right.LowerArm, LeftLowerArm |-> left.LowerArm]

calculateArmRotations(worldLandmarks) ==
    LET lm == worldLandmarks
        rShoulder == At(lm, RIGHT_SHOULDER)
        rElbow == At(lm, RIGHT_ELBOW)
        rWrist == At(lm, RIGHT_WRIST)
        lShoulder == At(lm, LEFT_SHOULDER)
        lElbow == At(lm, LEFT_ELBOW)
        lWrist == At(lm, LEFT_WRIST)
        right == IF Truthy(rShoulder) /\ Truthy(rElbow) /\ Truthy(rWrist)
                 THEN ArmBlock(rShoulder, rElbow, rWrist, TRUE) ELSE ZeroArm
        left == IF Truthy(lShoulder) /\ Truthy(lElbow) /\ Truthy(lWrist)
                THEN ArmBlock(lShoulder, lElbow, lWrist, FALSE) ELSE ZeroArm
    IN  [RightUpperArm |-> right.UpperArm, LeftUpperArm |-> left.UpperArm,
         RightLowerArm |-> right.LowerArm, LeftLowerArm |-> left.LowerArm]

(***************************************************************************)
(* The rig-aware variant of calculateArmRotations (worldLandmarks,         *)
(* handLandmarks, vrmVersion), kept in the repository beside the module    *)
(* above.                                                                  *)
(***************************************************************************)
isVrm0(vrmVersion) == vrmVersion = "0"

\* shoulder-line tilt used to compensate the raise/lower angle
shoulderHeightDiff(rShoulder, lShoulder) ==
    IF Truthy(rShoulder) /\ Truthy(lShoulder)
    THEN LET d == lShoulder.y - rShoulder.y
             shoulderDist == Length3(lShoulder.x - rShoulder.x, d,
                                     lShoulder.z - rShoulder.z)
         IN  IF shoulderDist > EPSILON THEN Atan2(d, shoulderDist, FALSE) ELSE d
    ELSE 0

\* twist from the palm vector (index knuckle minus pinky knuckle) projected
\* on the plane perpendicular to the forearm
PalmTwist(indexKnuckle, pinkyKnuckle, lowerDx, lowerDy, lowerDz, lowerLen) ==
    LET palmVecX == indexKnuckle.x - pinkyKnuckle.x
        palmVecY == indexKnuckle.y - pinkyKnuckle.y
        palmVecZ == indexKnuckle.z - pinkyKnuckle.z
        palmLen == Length3(palmVecX, palmVecY, palmVecZ)
        px == Scale(palmVecX, 1000, palmLen)
        py == Scale(palmVecY, 1000, palmLen)
        pz == Scale(palmVecZ, 1000, palmLen)
        fx == Scale(lowerDx, 1000, lowerLen)
        fy == Scale(lowerDy, 1000, lowerLen)
        fz == Scale(lowerDz, 1000, lowerLen)
        dot == Scale(px * fx + py * fy + pz * fz, 1, 1000)
        perpPalmX == px - Scale(dot * fx, 1, 1000)
        perpPalmY == py - Scale(dot * fy, 1, 1000)
        perpPalmZ == pz - Scale(dot * fz, 1, 1000)
        perpLen == Length3(perpPalmX, perpPalmY, perpPalmZ)
    IN  IF palmLen > EPSILON /\ lowerLen > EPSILON /\ perpLen > EPSILON
        THEN Asin(Clamp(-1000, 1000, Scale(perpPalmY, 1000, perpLen)))
        ELSE 0

\* fallback twist: forearm azimuth minus upper-arm azimuth, wrapped
ForearmTwist(dx, dz, lowerDx, lowerDz) ==
    LET forearmAngleXZ == Atan2(lowerDx, lowerDz, FALSE)
        upperArmAngleXZ == Atan2(dx, dz, FALSE)
        t0 == forearmAngleXZ - upperArmAngleXZ
        t1 == IF t0 > Pi THEN t0 - 2 * Pi ELSE t0
    IN  IF t1 < -Pi THEN t1 + 2 * Pi ELSE t1

ArmBlockRig(shoulder, elbow, wrist, hand, heightDiff, vrmVersion, isRight) ==
    LET dx == elbow.x - shoulder.x
        dy == elbow.y - shoulder.y
        dz == elbow.z - shoulder.z
        upperArmLen == Length3(dx, dy, dz)
        nx == Scale(dx, 1000, upperArmLen)
        ny == Scale(dy, 1000, upperArmLen)
        nz == Scale(dz, 1000, upperArmLen)
        horizontalDist == ISqrt(nx * nx + nz * nz)
        angleZ == Atan2(horizontalDist, -ny, ny = 0)
        armRotation == IF isRight THEN (HalfPi - angleZ) + heightDiff
                       ELSE (HalfPi - angleZ) - heightDiff
        angleX == Scale(Asin(Clamp(-1000, 1000, nz)), ARM_X_SCALE_NUM, 10)
        negate == (isRight /\ ~isVrm0(vrmVersion)) \/ (~isRight /\ isVrm0(vrmVersion))
        upperZ == IF upperArmLen > EPSILON
                  THEN (IF negate THEN -armRotation ELSE armRotation) ELSE 0
        upperX == IF upperArmLen > EPSILON
                  THEN (IF negate THEN -angleX ELSE angleX) ELSE 0
        lowerDx == wrist.x - elbow.x
        lowerDy == wrist.y - elbow.y
        lowerDz == wrist.z - elbow.z
        lowerLen == Length3(lowerDx, lowerDy, lowerDz)
        useHand == Truthy(hand) /\ hand.length > 0
        indexKnuckle == At(hand, INDEX_FINGER_MCP)
        pinkyKnuckle == At(hand, PINKY_MCP)
        twistAngle == IF useHand
                      THEN (IF Truthy(indexKnuckle) /\ Truthy(pinkyKnuckle)
                            THEN PalmTwist(indexKnuckle, pinkyKnuckle,
                                           lowerDx, lowerDy, lowerDz, lowerLen)
                            ELSE 0)
                      ELSE ForearmTwist(dx, dz, lowerDx, lowerDz)
        upperY == IF useHand
                  THEN (IF isRight THEN -Scale(twistAngle, 12, 10)
                        ELSE Scale(twistAngle, 12, 10))
                  ELSE (IF isRight THEN Scale(twistAngle, 5, 10)
                        ELSE -Scale(twistAngle, 5, 10))
        ux == Scale(dx, 1000, upperArmLen)
        uy == Scale(dy, 1000, upperArmLen)
        uz == Scale(dz, 1000, upperArmLen)
        lx == Scale(lowerDx, 1000, lowerLen)
        ly == Scale(lowerDy, 1000, lowerLen)
        lz == Scale(lowerDz, 1000, lowerLen)
        dot == Scale(ux * lx + uy * ly + uz * lz, 1, 1000)
        elbowAngle == Acos(Clamp(-1000, 1000, dot))
        lowerZ == IF upperArmLen > EPSILON /\ lowerLen > EPSILON
                  THEN (IF isRight THEN -elbowAngle ELSE elbowAngle)
                  ELSE 0
    IN  [UpperArm |-> [x |-> upperX, y |-> upperY, z |-> upperZ],
         LowerArm |-> [x |-> 0, y |-> 0, z |-> lowerZ]]

calculateArmRotationsRig(worldLandmarks, handLandmarks, vrmVersion) ==
    LET lm == worldLandmarks
        rShoulder == At(lm, RIGHT_SHOULDER)
        rElbow == At(lm, RIGHT_ELBOW)
        rWrist == At(lm, RIGHT_WRIST)
        lShoulder == At(lm, LEFT_SHOULDER)
        lElbow == At(lm, LEFT_ELBOW)
        lWrist == At(lm, LEFT_WRIST)
        heightDiff == shoulderHeightDiff(rShoulder, lShoulder)
        rHand == IF Truthy(handLandmarks) THEN handLandmarks.rightHandLandmarks ELSE Null
        lHand == IF Truthy(handLandmarks) THEN handLandmarks.leftHandLandmarks ELSE Null
        right == IF Truthy(rShoulder) /\ Truthy(rElbow) /\ Truthy(rWrist)
                 THEN ArmBlockRig(rShoulder, rElbow, rWrist, rHand, heightDiff,
                                  vrmVersion, TRUE)
                 ELSE ZeroArm
        left == IF Truthy(lShoulder) /\ Truthy(lElbow) /\ Truthy(lWrist)
                THEN ArmBlockRig(lShoulder, lElbow, lWrist, lHand, heightDiff,
                                 vrmVersion, FALSE)
                ELSE ZeroArm
    IN  [RightUpperArm |-> right.UpperArm, LeftUpperArm |-> left.UpperArm,
         RightLowerArm |-> right.LowerArm, LeftLowerArm |-> left.LowerArm]

(***************************************************************************)
(* utils/poseCalculations.js: calculateBodyRotations.  Reading .x of a     *)
(* landmark that is undefined raises a TypeError (Threw).                  *)
(***************************************************************************)
\* HIP_ROTATION_Z_SCALE is 2.0, SPINE_ROTATION_Z_SCALE is 1.0
HIP_ROTATION_Z_SCALE == 2
SPINE_ROTATION_Z_SCALE == 1

Midpoint(a, b) == [x |-> Scale(a.x + b.x, 1, 2), y |-> Scale(a.y + b.y, 1, 2),
                   z |-> Scale(a.z + b.z, 1, 2)]

calculateBodyRotations(worldLandmarks) ==
    LET lm == worldLandmarks
        rShoulder == At(lm, RIGHT_SHOULDER)
        lShoulder == At(lm, LEFT_SHOULDER)
        rHip == At(lm, RIGHT_HIP)
        lHip == At(lm, LEFT_HIP)
        torsoCenter == Midpoint(rShoulder, lShoulder)
        hipCenter == Midpoint(rHip, lHip)
    IN  IF ~(Truthy(rShoulder) /\ Truthy(lShoulder) /\ Truthy(rHip) /\ Truthy(lHip))
        THEN Threw
        ELSE [Hips |-> [x |-> 0, y |-> 0,
                        z |-> (hipCenter.z - torsoCenter.z) * HIP_ROTATION_Z_SCALE,
                        rotation |-> ZeroTriple,
                        worldPosition |-> hipCenter],
              Spine |-> [x |-> 0, y |-> 0,
                         z |-> (torsoCenter.z - hipCenter.z) * SPINE_ROTATION_Z_SCALE],
              Chest |-> Null, UpperChest |-> Null, Neck |-> Null, Head |-> Null,
              RightShoulder |-> ZeroTriple, LeftShoulder |-> ZeroTriple,
              RightHand |-> ZeroTriple, LeftHand |-> ZeroTriple]

(***************************************************************************)
(* utils/handCalculations.js                                               *)
(***************************************************************************)
HAND_POINTS == 21

\* calculateRotation(from, to) of calculateFingerRotations
calculateRotation(from, to, isLeft) ==
    LET dx == to.x - from.x
        dy == to.y - from.y
        dz == to.z - from.z
        horizontalDist == ISqrt(dx * dx + dz * dz)
        bendAngle == -(Atan2(-dy, horizontalDist, FALSE) - HalfPi)
        spreadAngle == Atan2(dx, Abs(dz), FALSE) * (IF isLeft THEN 1 ELSE -1)
    IN  [x |-> Scale(spreadAngle, 5, 10), y |-> 0, z |-> bendAngle]

\* calculateThumbRotation(from, to) of calculateFingerRotations
calculateThumbRotation(from, to, isLeft) ==
    LET dx == to.x - from.x
        dy == to.y - from.y
        dz == to.z - from.z
        perpDist == ISqrt(dy * dy + dz * dz)
        bendAngle == Atan2(perpDist, IF isLeft THEN dx ELSE -dx, ~isLeft /\ dx = 0) - HalfPi
        spreadAngle == Atan2(dy, Abs(dz), FALSE) * (IF isLeft THEN -1 ELSE 1)
    IN  [x |-> Scale(spreadAngle, 5, 10), y |-> 0, z |-> bendAngle]

\* the hand landmark each finger bone starts at; it ends at the next one
LeftFingerJoint ==
    ("leftThumbProximal" :> 1 @@ "leftThumbIntermediate" :> 2 @@ "leftThumbDistal" :> 3
     @@ "leftIndexProximal" :> 5 @@ "leftIndexIntermediate" :> 6 @@ "leftIndexDistal" :> 7
     @@ "leftMiddleProximal" :> 9 @@ "leftMiddleIntermediate" :> 10 @@ "leftMiddleDistal" :> 11
     @@ "leftRingProximal" :> 13 @@ "leftRingIntermediate" :> 14 @@ "leftRingDistal" :> 15
     @@ "leftLittleProximal" :> 17 @@ "leftLittleIntermediate" :> 18 @@ "leftLittleDistal" :> 19)
RightFingerJoint ==
    ("rightThumbProximal" :> 1 @@ "rightThumbIntermediate" :> 2 @@ "rightThumbDistal" :> 3
     @@ "rightIndexProximal" :> 5 @@ "rightIndexIntermediate" :> 6 @@ "rightIndexDistal" :> 7
     @@ "rightMiddleProximal" :> 9 @@ "rightMiddleIntermediate" :> 10 @@ "rightMiddleDistal" :> 11
     @@ "rightRingProximal" :> 13 @@ "rightRingIntermediate" :> 14 @@ "rightRingDistal" :> 15
     @@ "rightLittleProximal" :> 17 @@ "rightLittleIntermediate" :> 18 @@ "rightLittleDistal" :> 19)

LeftFingerBones == DOMAIN LeftFingerJoint
RightFingerBones == DOMAIN RightFingerJoint

\* returns Null, or a map from the fifteen finger bones of the side to triples
calculateFingerRotations(handLandmarks, isLeft) ==
    IF ~Truthy(handLandmarks) \/ handLandmarks.length < HAND_POINTS THEN Null
    ELSE [bone \in (IF isLeft THEN LeftFingerBones ELSE RightFingerBones) |->
            IF (LeftFingerJoint @@ RightFingerJoint)[bone] < INDEX_FINGER_MCP
            THEN calculateThumbRotation(
                     At(handLandmarks, (LeftFingerJoint @@ RightFingerJoint)[bone]),
                     At(handLandmarks, (LeftFingerJoint @@ RightFingerJoint)[bone] + 1), isLeft)
            ELSE calculateRotation(
                     At(handLandmarks, (LeftFingerJoint @@ RightFingerJoint)[bone]),
                     At(handLandmarks, (LeftFingerJoint @@ RightFingerJoint)[bone] + 1), isLeft)]

EmptyObject == [k \in {} |-> Null]

\* Object.assign / object spread: the keys of b override those of a
Assign(a, b) == [k \in (DOMAIN a) \cup (DOMAIN b) |-> IF k \in DOMAIN b THEN b[k] ELSE a[k]]

\* Object.assign(target, source) under "if (source)"
assignIfTruthy(target, source) == IF Truthy(source) THEN Assign(target, source) ELSE target

\* calculateFingerRotations of a hand the detector reported, else null
fingersOf(handLandmarks, isLeft) ==
    IF Truthy(handLandmarks) THEN calculateFingerRotations(handLandmarks, isLeft) ELSE Null

calculateHandRotations(results) ==
    assignIfTruthy(assignIfTruthy(EmptyObject, fingersOf(results.leftHandLandmarks, TRUE)),
                   fingersOf(results.rightHandLandmarks, FALSE))

(***************************************************************************)
(* utils/faceCalculations.js.  A face landmark array is kept sparse: its   *)
(* length and the points at the indices the solver reads.                  *)
(***************************************************************************)
LEFT_EYE_UPPER == 159
LEFT_EYE_LOWER == 145
LEFT_EYE_INNER == 133
LEFT_EYE_OUTER == 33
RIGHT_EYE_UPPER == 386
RIGHT_EYE_LOWER == 374
RIGHT_EYE_INNER == 362
RIGHT_EYE_OUTER == 263
MOUTH_TOP == 13
MOUTH_BOTTOM == 14
MOUTH_LEFT == 61
MOUTH_RIGHT == 291

\* the length the face solvers require (faceLandmarks.length < 478)
FACE_MIN_LENGTH == 478

FaceIndices == {LEFT_EYE_UPPER, LEFT_EYE_LOWER, LEFT_EYE_INNER, LEFT_EYE_OUTER,
                RIGHT_EYE_UPPER, RIGHT_EYE_LOWER, RIGHT_EYE_INNER, RIGHT_EYE_OUTER,
                MOUTH_TOP, MOUTH_BOTTOM, MOUTH_LEFT, MOUTH_RIGHT}

FaceAt(faceLandmarks, i) ==
    IF i < faceLandmarks.length THEN faceLandmarks.items[i] ELSE Undefined

\* point.z || 0
zOrZero(point) == IF "z" \in DOMAIN point THEN point.z ELSE 0

distance(point1, point2) ==
    Length3(point1.x - point2.x, point1.y - point2.y, zOrZero(point1) - zOrZero(point2))

\* Eye Aspect Ratio in thousandths: vertical / (horizontal + 0.001)
EAR(upper, lower, inner, outer) ==
    (distance(upper, lower) * 1000) \div (distance(inner, outer) + 1)

\* the EAR at and below which an eye counts as shut (0.05), the width of the
\* EAR range (0.15) and the full-blink threshold (0.65)
EAR_OPEN_FLOOR == 50
EAR_RANGE == 150
FULL_BLINK_THRESHOLD == 650

\* leftBlinkRaw: 1.0 - min(1, max(0, (EAR - 0.05) / 0.15))
blinkRaw(ear) == 1000 - Clamp(0, 1000, Scale(ear - EAR_OPEN_FLOOR, 1000, EAR_RANGE))

\* the blink value without the full-blink threshold
BlinkOfUnsnapped(ear) == Clamp(0, 1000, blinkRaw(ear))

\* the raw value, then the 0.65 snap
BlinkOf(ear) ==
    LET raw == blinkRaw(ear)
        snapped == IF raw > FULL_BLINK_THRESHOLD THEN 1000 ELSE raw
    IN  Clamp(0, 1000, snapped)

calculateBlink(faceLandmarks) ==
    IF ~Truthy(faceLandmarks) \/ faceLandmarks.length < FACE_MIN_LENGTH
    THEN [leftBlink |-> 0, rightBlink |-> 0]
    ELSE [leftBlink |-> BlinkOf(EAR(FaceAt(faceLandmarks, LEFT_EYE_UPPER),
                                    FaceAt(faceLandmarks, LEFT_EYE_LOWER),
                                    FaceAt(faceLandmarks, LEFT_EYE_INNER),
                                    FaceAt(faceLandmarks, LEFT_EYE_OUTER))),
          rightBlink |-> BlinkOf(EAR(FaceAt(faceLandmarks, RIGHT_EYE_UPPER),
                                     FaceAt(faceLandmarks, RIGHT_EYE_LOWER),
                                     FaceAt(faceLandmarks, RIGHT_EYE_INNER),
                                     FaceAt(faceLandmarks, RIGHT_EYE_OUTER)))]

\* the vowel scores a, i, u, e, o before the normalisation
mouthScores(faceLandmarks) ==
    IF ~Truthy(faceLandmarks) \/ faceLandmarks.length < FACE_MIN_LENGTH
    THEN [a |-> 0, i |-> 0, u |-> 0, e |-> 0, o |-> 0]
    ELSE
    LET mouthHeight == distance(FaceAt(faceLandmarks, MOUTH_TOP),
                                FaceAt(faceLandmarks, MOUTH_BOTTOM))
        mouthWidth == distance(FaceAt(faceLandmarks, MOUTH_LEFT),
                               FaceAt(faceLandmarks, MOUTH_RIGHT))
        aspectRatio == (mouthWidth * 1000) \div (mouthHeight + 1)
        openness == Clamp(0, 1000, mouthHeight * 10)
        wideness == Clamp(0, 1000, (mouthWidth - 50) * 20)
    IN  [a |-> IF openness > 300 /\ aspectRatio < 3000 THEN Scale(openness, 8, 10) ELSE 0,
         i |-> IF wideness > 400 /\ openness < 300 THEN Scale(wideness, 7, 10) ELSE 0,
         u |-> IF aspectRatio < 1500 /\ openness > 150 /\ openness < 400 THEN 600 ELSE 0,
         e |-> IF wideness > 300 /\ openness > 150 /\ openness < 500 /\ aspectRatio > 2000
               THEN 500 ELSE 0,
         o |-> IF openness > 300 /\ aspectRatio > 1500 /\ aspectRatio < 2500
               THEN Scale(openness, 7, 10) ELSE 0]

\* const total = a + i + u + e + o
mouthTotal(scores) == scores.a + scores.i + scores.u + scores.e + scores.o

\* the mouth shape without the normalisation
calculateMouthShapeUnscaled(faceLandmarks) == mouthScores(faceLandmarks)

calculateMouthShape(faceLandmarks) ==
    LET scores == mouthScores(faceLandmarks)
        total == mouthTotal(scores)
        Rescale(v) == IF total > 1000 THEN Scale(v, 1000, total) ELSE v
    IN  [a |-> Rescale(scores.a), i |-> Rescale(scores.i), u |-> Rescale(scores.u),
         e |-> Rescale(scores.e), o |-> Rescale(scores.o)]

calculateFaceExpressions(faceLandmarks) ==
    IF ~Truthy(faceLandmarks) THEN Null
    ELSE LET blink == calculateBlink(faceLandmarks)
             mouth == calculateMouthShape(faceLandmarks)
         IN  [blinkLeft |-> blink.leftBlink, blinkRight |-> blink.rightBlink,
              mouthA |-> mouth.a, mouthI |-> mouth.i, mouthU |-> mouth.u,
              mouthE |-> mouth.e, mouthO |-> mouth.o]

(***************************************************************************)
(* utils/faceCalculations.js: calculateEyeGaze.  Its quotients have no     *)
(* guard on the divisor, so a value is a number in thousandths, an         *)
(* infinity or NaN.                                                        *)
(***************************************************************************)
LEFT_EYE_TOP == 159
LEFT_EYE_BOTTOM == 23
LEFT_IRIS_CENTER == 468
RIGHT_IRIS_CENTER == 473

Num(v) == [kind |-> "number", value |-> v]
Infinity(sign) == [kind |-> "Infinity", value |-> sign]
NaN == [kind |-> "NaN", value |-> 0]

\* a / b for numbers a and b >= +0: x / 0 is an infinity, 0 / 0 is NaN
Quotient(a, b) ==
    IF b # 0 THEN Num(Scale(a, 1000, b))
    ELSE IF a = 0 THEN NaN
    ELSE Infinity(IF a > 0 THEN 1 ELSE -1)

\* (a + b) / 2
Mean(a, b) ==
    IF a.kind = "NaN" \/ b.kind = "NaN" THEN NaN
    ELSE IF a.kind = "Infinity" /\ b.kind = "Infinity"
    THEN (IF a.value = b.value THEN a ELSE NaN)
    ELSE IF a.kind = "Infinity" THEN a
    ELSE IF b.kind = "Infinity" THEN b
    ELSE Num(Scale(a.value + b.value, 1, 2))

\* Math.min(1.0, Math.max(-1.0, v)): NaN stays NaN
ClampGaze(v) ==
    IF v.kind = "NaN" THEN NaN
    ELSE IF v.kind = "Infinity" THEN Num(1000 * v.value)
    ELSE Num(Clamp(-1000, 1000, v.value))

calculateEyeGaze(faceLandmarks) ==
    IF ~Truthy(faceLandmarks) \/ faceLandmarks.length < FACE_MIN_LENGTH
    THEN [horizontal |-> Num(0), vertical |-> Num(0)]
    ELSE
    LET leftIris == FaceAt(faceLandmarks, LEFT_IRIS_CENTER)
        rightIris == FaceAt(faceLandmarks, RIGHT_IRIS_CENTER)
        leftEyeInner == FaceAt(faceLandmarks, LEFT_EYE_INNER)
        leftEyeOuter == FaceAt(faceLandmarks, LEFT_EYE_OUTER)
        rightEyeInner == FaceAt(faceLandmarks, RIGHT_EYE_INNER)
        rightEyeOuter == FaceAt(faceLandmarks, RIGHT_EYE_OUTER)
        leftEyeWidth == distance(leftEyeInner, leftEyeOuter)
        rightEyeWidth == distance(rightEyeInner, rightEyeOuter)
        leftHorizontal == Quotient(2 * leftIris.x - (leftEyeInner.x + leftEyeOuter.x),
                                   leftEyeWidth)
        rightHorizontal == Quotient(2 * rightIris.x - (rightEyeInner.x + rightEyeOuter.x),
                                    rightEyeWidth)
        leftEyeTop == FaceAt(faceLandmarks, LEFT_EYE_TOP)
        leftEyeBottom == FaceAt(faceLandmarks, LEFT_EYE_BOTTOM)
        leftEyeHeight == distance(leftEyeTop, leftEyeBottom)
        vertical == Quotient(2 * leftIris.y - (leftEyeTop.y + leftEyeBottom.y),
                             leftEyeHeight)
    IN  [horizontal |-> ClampGaze(Mean(leftHorizontal, rightHorizontal)),
         vertical |-> ClampGaze(vertical)]

(***************************************************************************)
(* calculateLegRotations, kept in the repository beside the rig-aware arm  *)
(* solver.                                                                 *)
(***************************************************************************)
LEFT_KNEE == 25
RIGHT_KNEE == 26
LEFT_ANKLE == 27
RIGHT_ANKLE == 28
\* const DEAD_ZONE = 0.15; const DEAD_ZONE_KNEE = 0.6
DEAD_ZONE == 150
DEAD_ZONE_KNEE == 600
\* upperLen > 0.01, lowerLen > 0.01
LEG_MIN_LENGTH == 10

ZeroLeg == [UpperLeg |-> ZeroTriple, LowerLeg |-> ZeroTriple]

\* the angles written as they are computed, no dead zone
LegBlockNoDeadZone(hip, knee, ankle, isRight) ==
    LET upperDx == knee.x - hip.x
        upperDy == knee.y - hip.y
        upperDz == knee.z - hip.z
        upperLen == Length3(upperDx, upperDy, upperDz)
        ny == Scale(upperDy, 1000, upperLen)
        nz == Scale(upperDz, 1000, upperLen)
        rotZ == IF nz = 0 /\ ny < 0 THEN -Pi ELSE Atan2(-nz, ny, FALSE)
        lowerDx == ankle.x - knee.x
        lowerDy == ankle.y - knee.y
        lowerDz == ankle.z - knee.z
        lowerLen == Length3(lowerDx, lowerDy, lowerDz)
        dot == Scale(Scale(upperDx, 1000, upperLen) * Scale(lowerDx, 1000, lowerLen)
                     + ny * Scale(lowerDy, 1000, lowerLen)
                     + nz * Scale(lowerDz, 1000, lowerLen), 1, 1000)
        kneeAngle == Acos(Clamp(-1000, 1000, dot))
    IN  [UpperLeg |-> [x |-> 0, y |-> 0,
                       z |-> IF upperLen > LEG_MIN_LENGTH THEN rotZ ELSE 0],
         LowerLeg |-> [x |-> 0, y |-> 0,
                       z |-> IF upperLen > LEG_MIN_LENGTH /\ lowerLen > LEG_MIN_LENGTH
                             THEN (IF isRight THEN -kneeAngle ELSE kneeAngle)
                             ELSE 0]]

\* one leg, hip, knee and ankle present.  -nz is the IEEE negative zero when
\* the knee is at the hip's depth, so a leg pointing straight up solves to -Pi
LegBlock(hip, knee, ankle, isRight) ==
    LET upperDx == knee.x - hip.x
        upperDy == knee.y - hip.y
        upperDz == knee.z - hip.z
        upperLen == Length3(upperDx, upperDy, upperDz)
        ny == Scale(upperDy, 1000, upperLen)
        nz == Scale(upperDz, 1000, upperLen)
        rotZ == IF nz = 0 /\ ny < 0 THEN -Pi ELSE Atan2(-nz, ny, FALSE)
        lowerDx == ankle.x - knee.x
        lowerDy == ankle.y - knee.y
        lowerDz == ankle.z - knee.z
        lowerLen == Length3(lowerDx, lowerDy, lowerDz)
        dot == Scale(Scale(upperDx, 1000, upperLen) * Scale(lowerDx, 1000, lowerLen)
                     + ny * Scale(lowerDy, 1000, lowerLen)
                     + nz * Scale(lowerDz, 1000, lowerLen), 1, 1000)
        kneeAngle == Acos(Clamp(-1000, 1000, dot))
        bend == IF kneeAngle < DEAD_ZONE_KNEE THEN 0 ELSE kneeAngle
    IN  [UpperLeg |-> [x |-> 0, y |-> 0,
                       z |-> IF upperLen > LEG_MIN_LENGTH
                             THEN (IF Abs(rotZ) < DEAD_ZONE THEN 0 ELSE rotZ)
                             ELSE 0],
         LowerLeg |-> [x |-> 0, y |-> 0,
                       z |-> IF upperLen > LEG_MIN_LENGTH /\ lowerLen > LEG_MIN_LENGTH
                             THEN (IF isRight THEN -bend ELSE bend)
                             ELSE 0]]

calculateLegRotations(worldLandmarks) ==
    LET lm == worldLandmarks
        rHip == At(lm, RIGHT_HIP)
        lHip == At(lm, LEFT_HIP)
        rKnee == At(lm, RIGHT_KNEE)
        lKnee == At(lm, LEFT_KNEE)
        rAnkle == At(lm, RIGHT_ANKLE)
        lAnkle == At(lm, LEFT_ANKLE)
        right == IF Truthy(rHip) /\ Truthy(rKnee) /\ Truthy(rAnkle)
                 THEN LegBlock(rHip, rKnee, rAnkle, TRUE) ELSE ZeroLeg
        left == IF Truthy(lHip) /\ Truthy(lKnee) /\ Truthy(lAnkle)
                THEN LegBlock(lHip, lKnee, lAnkle, FALSE) ELSE ZeroLeg
    IN  [RightUpperLeg |-> right.UpperLeg, LeftUpperLeg |-> left.UpperLeg,
         RightLowerLeg |-> right.LowerLeg, LeftLowerLeg |-> left.LowerLeg]

(***************************************************************************)
(* The head and neck rotations of the calculateBodyRotations kept beside   *)
(* the rig-aware arm solver.                                               *)
(***************************************************************************)
LEFT_EAR == 7
RIGHT_EAR == 8
\* Split between neck (60%) and head (40%)
NECK_SHARE_TENTHS == 6
HEAD_SHARE_TENTHS == 4

\* the forward vector, from the centre of the ears to the nose
headForward(nose, leftEar, rightEar) ==
    LET earCenter == Midpoint(leftEar, rightEar)
    IN  [x |-> nose.x - earCenter.x, y |-> nose.y - earCenter.y,
         z |-> nose.z - earCenter.z]

\* Math.atan2(dx, -dz)
headYaw(d) == Atan2(d.x, -d.z, d.z = 0)

\* Math.atan2(dy, Math.sqrt(dx*dx + dz*dz))
headPitch(d) == Atan2(d.y, ISqrt(d.x * d.x + d.z * d.z), FALSE)

\* neckRotation and headRotation: null without the nose or an ear
headRotations(worldLandmarks) ==
    LET nose == At(worldLandmarks, NOSE)
        leftEar == At(worldLandmarks, LEFT_EAR)
        rightEar == At(worldLandmarks, RIGHT_EAR)
    IN  IF Truthy(nose) /\ Truthy(leftEar) /\ Truthy(rightEar)
        THEN LET d == headForward(nose, leftEar, rightEar)
             IN  [Neck |-> [x |-> Scale(headPitch(d), NECK_SHARE_TENTHS, 10),
                            y |-> Scale(headYaw(d), NECK_SHARE_TENTHS, 10),
                            z |-> 0],
                  Head |-> [x |-> Scale(headPitch(d), HEAD_SHARE_TENTHS, 10),
                            y |-> Scale(headYaw(d), HEAD_SHARE_TENTHS, 10),
                            z |-> 0]]
        ELSE [Neck |-> Null, Head |-> Null]

(***************************************************************************)
(* utils/poseCalculations.js: mergeRiggedPose and applyTemporalSmoothing   *)
(***************************************************************************)
\* { ...bodyPose, ...armPose }: the module's function takes two poses
mergeRiggedPose(armPose, bodyPose) == Assign(bodyPose, armPose)

\* SMOOTHING.POSE_TEMPORAL is 0.3
POSE_TEMPORAL_TENTHS == 3

\* JSON.parse(JSON.stringify(v)): properties whose value is undefined are dropped
JsonCopy(pose) == [k \in {j \in DOMAIN pose : pose[j] # Undefined} |-> pose[k]]

bodyParts == {"RightUpperArm", "RightLowerArm", "LeftUpperArm", "LeftLowerArm",
              "RightUpperLeg", "RightLowerLeg", "LeftUpperLeg", "LeftLowerLeg",
              "Hips", "Spine", "RightShoulder", "LeftShoulder"}

Get(obj, key) == IF key \in DOMAIN obj THEN obj[key] ELSE Undefined

\* the blend with factor and (1 - factor) exchanged
BlendSwapped(current, previous, factorTenths) ==
    previous + Scale(current - previous, factorTenths, 10)

\* previous + (current - previous) * (1 - factor), factor in tenths
Blend(current, previous, factorTenths) ==
    previous + Scale(current - previous, 10 - factorTenths, 10)

\* smoothRotation(current, previous, key): the entry written to smoothedPose[key]
smoothRotation(current, previous, key) ==
    LET c == current[key]
        q == previous[key]
    IN  [a \in DOMAIN c |->
            IF a \in {"x", "y", "z"} /\ a \in DOMAIN q
            THEN Blend(c[a], q[a], POSE_TEMPORAL_TENTHS)
            ELSE c[a]]

applyTemporalSmoothing(currentPose, previousPose) ==
    IF ~Truthy(previousPose) THEN currentPose
    ELSE LET smoothedPose == JsonCopy(currentPose)
         IN  [k \in DOMAIN smoothedPose |->
                IF k \in bodyParts /\ Truthy(Get(currentPose, k))
                   /\ Truthy(Get(previousPose, k))
                THEN smoothRotation(currentPose, previousPose, k)
                ELSE smoothedPose[k]]

(***************************************************************************)
(* The variant of applyTemporalSmoothing kept beside the rig-aware arm     *)
(* solver: a factor per bone and axis, and the Face block smoothed too.    *)
(***************************************************************************)
blinkKeys == {"blinkLeft", "blinkRight"}
mouthKeys == {"mouthA", "mouthI", "mouthU", "mouthE", "mouthO"}

bodyPartsRig == bodyParts \cup {"Neck", "Head"}

\* the factor, in tenths, of an axis of a bone: yAxisSmoothingFactor 0.1 for
\* the twist of an upper arm, headSmoothingFactor 0.6 for neck and head,
\* SMOOTHING.POSE_TEMPORAL otherwise
factorOf(key, axis) ==
    IF axis = "y" /\ key \in {"RightUpperArm", "LeftUpperArm"} THEN 1
    ELSE IF key \in {"Neck", "Head"} THEN 6
    ELSE POSE_TEMPORAL_TENTHS

\* the factor of a Face value: blinkSmoothingFactor 0.2, mouthSmoothingFactor 0.4
faceFactorOf(key) == IF key \in blinkKeys THEN 2 ELSE 4

smoothRotationRig(current, previous, key) ==
    LET c == current[key]
        q == previous[key]
    IN  [a \in DOMAIN c |->
            IF a \in {"x", "y", "z"} /\ a \in DOMAIN q
            THEN Blend(c[a], q[a], factorOf(key, a))
            ELSE c[a]]

\* smoothedPose.Face = {} and then the blink and mouth values both poses hold
smoothFace(current, previous) ==
    [key \in {k \in (blinkKeys \cup mouthKeys) \cap DOMAIN current : k \in DOMAIN previous} |->
        Blend(current[key], previous[key], faceFactorOf(key))]

applyTemporalSmoothingRig(currentPose, previousPose) ==
    IF ~Truthy(previousPose) THEN currentPose
    ELSE LET smoothedPose == JsonCopy(currentPose)
         IN  [k \in DOMAIN smoothedPose |->
                IF k = "Face" /\ Truthy(Get(currentPose, k)) /\ Truthy(Get(previousPose, k))
                THEN smoothFace(currentPose[k], previousPose[k])
                ELSE IF k \in bodyPartsRig /\ Truthy(Get(currentPose, k))
                        /\ Truthy(Get(previousPose, k))
                THEN smoothRotationRig(currentPose, previousPose, k)
                ELSE smoothedPose[k]]

(***************************************************************************)
(* utils/landmarkProcessing.js: LowPassFilter and generate3DLandmarks      *)
(***************************************************************************)
\* SMOOTHING.LANDMARK_FILTER is 0.8
LANDMARK_FILTER_TENTHS == 8

\* new LowPassFilter(smoothing)
NewFilter == [initialized |-> FALSE, hatXPrev |-> Null]

\* alpha and (1 - alpha) exchanged
filterSwapped(f, value) ==
    IF ~f.initialized
    THEN [out |-> value, f |-> [initialized |-> TRUE, hatXPrev |-> value]]
    ELSE LET hatX == [key \in DOMAIN value |->
                        IF key \in DOMAIN f.hatXPrev
                        THEN Scale((10 - LANDMARK_FILTER_TENTHS) * f.hatXPrev[key]
                                   + LANDMARK_FILTER_TENTHS * value[key], 1, 10)
                        ELSE value[key]]
         IN  [out |-> hatX, f |-> [initialized |-> TRUE, hatXPrev |-> hatX]]

\* LowPassFilter.filter(value): the value returned and the filter afterwards
filter(f, value) ==
    IF ~f.initialized
    THEN [out |-> value, f |-> [initialized |-> TRUE, hatXPrev |-> value]]
    ELSE LET hatX == [key \in DOMAIN value |->
                        IF key \in DOMAIN f.hatXPrev
                        THEN Scale(LANDMARK_FILTER_TENTHS * f.hatXPrev[key]
                                   + (10 - LANDMARK_FILTER_TENTHS) * value[key], 1, 10)
                        ELSE value[key]]
         IN  [out |-> hatX, f |-> [initialized |-> TRUE, hatXPrev |-> hatX]]

\* LowPassFilter.reset()
reset(f) == [initialized |-> FALSE, hatXPrev |-> Null]

\* DEPTH_ESTIMATION and COORDINATES, in thousandths
ARM_VERTICAL_DEPTH == 1500
ARM_LATERAL_DEPTH == 1000
ARM_BEND_DEPTH == 600
ARM_FORWARD_REACH == 500
ELBOW_HEIGHT_DEPTH == 1200
ELBOW_LATERAL_DEPTH == 800
ELBOW_MID_DEPTH == 200
SHOULDER_DEPTH == -50
HIP_DEPTH == -100
HEAD_DEPTH_COEF == 300
DEFAULT_Y_DEPTH == -200
CENTER_OFFSET == 500
NORMALIZE_X_SCALE == 2
NORMALIZE_Y_SCALE == 2
DEFAULT_VISIBILITY == 500

Sign(n) == IF n > 0 THEN 1 ELSE IF n < 0 THEN -1 ELSE 0
length2D(vx, vy) == ISqrt(vx * vx + vy * vy)

\* depth of a wrist landmark
WristDepth(landmarks, lm, isLeft, shoulderCenterX) ==
    LET shoulder == At(landmarks, IF isLeft THEN LEFT_SHOULDER ELSE RIGHT_SHOULDER)
        elbow == At(landmarks, IF isLeft THEN LEFT_ELBOW ELSE RIGHT_ELBOW)
        verticalComponent == shoulder.y - lm.y
        d1 == Scale(verticalComponent, ARM_VERTICAL_DEPTH, 1000)
        lateralDistance == Abs(lm.x - shoulderCenterX)
        centerToShoulder == shoulder.x - shoulderCenterX
        centerToWrist == lm.x - shoulderCenterX
        d2 == IF Sign(centerToWrist) = Sign(centerToShoulder)
                 /\ Abs(centerToWrist) > Abs(centerToShoulder)
              THEN Scale(lateralDistance, ARM_LATERAL_DEPTH, 1000) ELSE 0
        upperArmLen == length2D(elbow.x - shoulder.x, elbow.y - shoulder.y)
        forearmLen == length2D(lm.x - elbow.x, lm.y - elbow.y)
        shoulderToWristDist == length2D(shoulder.x - lm.x, shoulder.y - lm.y)
        armExtension == (shoulderToWristDist * 1000) \div (upperArmLen + forearmLen)
        d3 == IF upperArmLen + forearmLen > 0
              THEN Scale(1000 - armExtension, ARM_BEND_DEPTH, 1000) ELSE 0
        d4 == IF (isLeft /\ lm.x > shoulder.x) \/ (~isLeft /\ lm.x < shoulder.x)
              THEN Scale(Abs(lm.x - shoulder.x), ARM_FORWARD_REACH, 1000) ELSE 0
    IN  d1 + d2 + d3 + d4

\* depth of an elbow landmark
ElbowDepth(landmarks, lm, isLeft) ==
    LET shoulder == At(landmarks, IF isLeft THEN LEFT_SHOULDER ELSE RIGHT_SHOULDER)
        wrist == At(landmarks, IF isLeft THEN LEFT_WRIST ELSE RIGHT_WRIST)
        elbowHeight == shoulder.y - lm.y
        lateralDist == Abs(lm.x - shoulder.x)
    IN  Scale(elbowHeight, ELBOW_HEIGHT_DEPTH, 1000)
        + Scale(lateralDist, ELBOW_LATERAL_DEPTH, 1000)
        + (IF lm.y > shoulder.y /\ lm.y < wrist.y THEN ELBOW_MID_DEPTH ELSE 0)

depthEstimate(landmarks, index, shoulderCenter) ==
    LET lm == At(landmarks, index)
    IN  IF index = LEFT_WRIST \/ index = RIGHT_WRIST
        THEN WristDepth(landmarks, lm, index = LEFT_WRIST, shoulderCenter.x)
        ELSE IF index = LEFT_ELBOW \/ index = RIGHT_ELBOW
        THEN ElbowDepth(landmarks, lm, index = LEFT_ELBOW)
        ELSE IF index = LEFT_SHOULDER \/ index = RIGHT_SHOULDER THEN SHOULDER_DEPTH
        ELSE IF index = LEFT_HIP \/ index = RIGHT_HIP THEN HIP_DEPTH
        ELSE IF index <= 10
        THEN Scale(shoulderCenter.y - At(landmarks, NOSE).y, HEAD_DEPTH_COEF, 1000)
        ELSE Scale(lm.y - CENTER_OFFSET, DEFAULT_Y_DEPTH, 1000)

\* the unfiltered world landmark of index
pseudo3D(landmarks, index, shoulderCenter) ==
    LET lm == At(landmarks, index)
    IN  [x |-> (lm.x - CENTER_OFFSET) * NORMALIZE_X_SCALE,
         y |-> (CENTER_OFFSET - lm.y) * NORMALIZE_Y_SCALE,
         z |-> depthEstimate(landmarks, index, shoulderCenter),
         visibility |-> DEFAULT_VISIBILITY]

\* generate3DLandmarks(landmarks, landmarkFilters): the array returned (or
\* Threw) and the filter bank afterwards.  The shoulder and hip landmarks are
\* read before anything else; the filters are applied in index order, so a
\* bank shorter than the array has advanced its filters when the missing one
\* is reached.
generate3DLandmarks(landmarks, landmarkFilters) ==
    LET n == landmarks.length
        m == landmarkFilters.length
        readable == Truthy(At(landmarks, LEFT_SHOULDER)) /\ Truthy(At(landmarks, RIGHT_SHOULDER))
                    /\ Truthy(At(landmarks, LEFT_HIP)) /\ Truthy(At(landmarks, RIGHT_HIP))
        shoulderCenter ==
            [x |-> Scale(At(landmarks, LEFT_SHOULDER).x + At(landmarks, RIGHT_SHOULDER).x, 1, 2),
             y |-> Scale(At(landmarks, LEFT_SHOULDER).y + At(landmarks, RIGHT_SHOULDER).y, 1, 2)]
        step(i) == filter(landmarkFilters.items[i], pseudo3D(landmarks, i - 1, shoulderCenter))
        bank == Array([i \in 1..m |-> IF i <= n THEN step(i).f ELSE landmarkFilters.items[i]])
    IN  IF ~readable THEN [out |-> Threw, filters |-> landmarkFilters]
        ELSE IF m < n THEN [out |-> Threw, filters |-> bank]
        ELSE [out |-> Array([i \in 1..n |-> step(i).out]), filters |-> bank]

(***************************************************************************)
(* components/MotionCapturer.jsx: animateVRM.  An avatar is a record       *)
(* [metaVersion, bones, expressionManager, blendShapeProxy]; bones is the  *)
(* set of humanoid bones getNormalizedBoneNode finds.                      *)
(***************************************************************************)
\* SMOOTHING.SHOULDER_Z_DAMPEN is 0.5
SHOULDER_Z_DAMPEN_TENTHS == 5

LegKeys == {"RightUpperLeg", "LeftUpperLeg", "RightLowerLeg", "LeftLowerLeg"}
LegBones == {"rightUpperLeg", "leftUpperLeg", "rightLowerLeg", "leftLowerLeg"}
FingerBones == LeftFingerBones \cup RightFingerBones

\* the humanoid bone each entry of the rigged pose is written to
RigBone ==
    ("Hips" :> "hips" @@ "Spine" :> "spine" @@ "Chest" :> "chest"
     @@ "UpperChest" :> "upperChest" @@ "Neck" :> "neck" @@ "Head" :> "head"
     @@ "RightShoulder" :> "rightShoulder" @@ "LeftShoulder" :> "leftShoulder"
     @@ "RightUpperArm" :> "rightUpperArm" @@ "LeftUpperArm" :> "leftUpperArm"
     @@ "RightLowerArm" :> "rightLowerArm" @@ "LeftLowerArm" :> "leftLowerArm"
     @@ "RightHand" :> "rightHand" @@ "LeftHand" :> "leftHand"
     @@ "RightUpperLeg" :> "rightUpperLeg" @@ "LeftUpperLeg" :> "leftUpperLeg"
     @@ "RightLowerLeg" :> "rightLowerLeg" @@ "LeftLowerLeg" :> "leftLowerLeg"
     @@ [b \in FingerBones |-> b])

HumanoidBones == {RigBone[k] : k \in DOMAIN RigBone}

isVrm1(metaVersion) == metaVersion = "1"

animateVRM(vrm, riggedPose, settings) ==
    LET keys == {k \in (DOMAIN RigBone) \cap (DOMAIN riggedPose) :
                    /\ Truthy(riggedPose[k])
                    /\ RigBone[k] \in vrm.bones
                    /\ (k \in LegKeys => settings.captureLowerBody)}
        rot(k) == IF k = "Hips" THEN riggedPose[k].rotation
                  ELSE IF k \in {"RightShoulder", "LeftShoulder"}
                  THEN [riggedPose[k] EXCEPT !.z = Scale(@, SHOULDER_Z_DAMPEN_TENTHS, 10)]
                  ELSE riggedPose[k]
        appliedBones == [b \in {RigBone[k] : k \in keys} |->
                            rot(CHOOSE k \in keys : RigBone[k] = b)]
        faceApplied == /\ "Face" \in DOMAIN riggedPose
                       /\ Truthy(riggedPose["Face"])
                       /\ \/ isVrm1(vrm.metaVersion) /\ vrm.expressionManager
                          \/ vrm.blendShapeProxy
    IN  IF faceApplied THEN Assign(appliedBones, "Face" :> riggedPose["Face"])
        ELSE appliedBones

(***************************************************************************)
(* Detector results the model feeds to the results handler.                *)
(***************************************************************************)
POSE_POINTS == 33
\* the results handler rigs a frame when worldLandmarks.length >= 17
MIN_WORLD_LANDMARKS == 17

\* a 33-point array from the landmarks that matter; the rest sit at rest
PoseArray(nose, ls, rs, le, re, lw, rw, lh, rh, rest) ==
    Array([i \in 1..POSE_POINTS |->
        CASE i - 1 = NOSE -> nose
          [] i - 1 = LEFT_SHOULDER -> ls
          [] i - 1 = RIGHT_SHOULDER -> rs
          [] i - 1 = LEFT_ELBOW -> le
          [] i - 1 = RIGHT_ELBOW -> re
          [] i - 1 = LEFT_WRIST -> lw
          [] i - 1 = RIGHT_WRIST -> rw
          [] i - 1 = LEFT_HIP -> lh
          [] i - 1 = RIGHT_HIP -> rh
          [] OTHER -> rest])

\* 3D world landmarks (Y+ downward): arms held out level
WorldLevel ==
    PoseArray(Pt(0, -650, -80), Pt(200, -500, 0), Pt(-200, -500, 0),
              Pt(500, -500, 0), Pt(-500, -500, 0), Pt(500, -800, 0), Pt(-500, -800, 0),
              Pt(100, 0, 20), Pt(-100, 0, 20), Pt(0, 400, 0))

\* right arm raised and folded, left arm hanging, torso leaning
WorldRaised ==
    PoseArray(Pt(10, -640, -90), Pt(200, -480, 30), Pt(-200, -500, 10),
              Pt(250, -200, 60), Pt(-400, -700, -100), Pt(300, 0, -150), Pt(-300, -900, -200),
              Pt(100, 0, -40), Pt(-100, 10, -60), Pt(0, 400, 0))

\* 2D image landmarks (x, y in thousandths of the frame, y downward)
Pt2(x, y) == [x |-> x, y |-> y]

ImageLevel ==
    PoseArray(Pt2(500, 200), Pt2(600, 300), Pt2(400, 300), Pt2(750, 300), Pt2(250, 300),
              Pt2(750, 150), Pt2(250, 150), Pt2(560, 600), Pt2(440, 600), Pt2(500, 800))

ImageRaised ==
    PoseArray(Pt2(505, 210), Pt2(600, 310), Pt2(400, 300), Pt2(630, 450), Pt2(300, 200),
              Pt2(650, 600), Pt2(350, 100), Pt2(560, 600), Pt2(440, 610), Pt2(500, 800))

\* a 21-point hand: finger f (0 thumb .. 4 little), joint j (0..3)
HandPoint(i, curl) ==
    IF i = 0 THEN Pt(500, 800, 0)
    ELSE LET f == (i - 1) \div 4
             j == (i - 1) % 4
         IN  Pt(400 + 50 * f + curl * j, 700 - 40 * j + curl * j * j, -10 * j - curl * f)

HandOpen == Array([i \in 1..HAND_POINTS |-> HandPoint(i - 1, 0)])
HandCurled == Array([i \in 1..HAND_POINTS |-> HandPoint(i - 1, 12)])

\* a face array of the given length with the given eye openings and mouth
FaceArray(length, leftOpen, rightOpen, mouthHeight, mouthWidth) ==
    [length |-> length,
     items |-> (LEFT_EYE_UPPER :> Pt(400, 400, 0) @@ LEFT_EYE_LOWER :> Pt(400, 400 + leftOpen, 0)
              @@ LEFT_EYE_INNER :> Pt(430, 400, 0) @@ LEFT_EYE_OUTER :> Pt(370, 400, 0)
              @@ RIGHT_EYE_UPPER :> Pt(600, 400, 0) @@ RIGHT_EYE_LOWER :> Pt(600, 400 + rightOpen, 0)
              @@ RIGHT_EYE_INNER :> Pt(570, 400, 0) @@ RIGHT_EYE_OUTER :> Pt(630, 400, 0)
              @@ MOUTH_TOP :> Pt(500, 600, 0) @@ MOUTH_BOTTOM :> Pt(500, 600 + mouthHeight, 0)
              @@ MOUTH_LEFT :> Pt(500 - mouthWidth \div 2, 620, 0)
              @@ MOUTH_RIGHT :> Pt(500 + mouthWidth - mouthWidth \div 2, 620, 0))]

\* the documented face mesh has 468 points; with refined landmarks it has 478
FACE_MESH_POINTS == 468

Results(poseLandmarks, za, leftHand, rightHand, face) ==
    [poseLandmarks |-> poseLandmarks, za |-> za, poseWorldLandmarks |-> Undefined,
     leftHandLandmarks |-> leftHand, rightHandLandmarks |-> rightHand,
     faceLandmarks |-> face]

DetectorResults ==
    { Results(ImageLevel, WorldLevel, HandOpen, HandCurled,
              FaceArray(FACE_MIN_LENGTH, 2, 15, 40, 60)),
      [Results(ImageRaised, Undefined, Undefined, Undefined, Undefined)
           EXCEPT !.poseWorldLandmarks = WorldRaised],
      Results(ImageLevel, Undefined, Undefined, HandOpen,
              FaceArray(FACE_MIN_LENGTH, 2, 2, 10, 90)),
      Results(ImageRaised, Undefined, Undefined, Undefined, Undefined),
      Results(ImageLevel, slice(WorldRaised, 0, MIN_WORLD_LANDMARKS),
              Undefined, Undefined, Undefined),
      Results(slice(ImageLevel, 0, MIN_WORLD_LANDMARKS), Undefined,
              Undefined, Undefined, Undefined),
      Results(ImageLevel, slice(WorldRaised, 0, MIN_WORLD_LANDMARKS - 1),
              Undefined, Undefined, Undefined),
      Results(Undefined, Undefined, Undefined, Undefined, Undefined) }

\* avatars the VRM loader can produce
Avatars ==
    { [metaVersion |-> "1", bones |-> HumanoidBones,
       expressionManager |-> TRUE, blendShapeProxy |-> FALSE],
      [metaVersion |-> "0", bones |-> HumanoidBones \ FingerBones,
       expressionManager |-> TRUE, blendShapeProxy |-> FALSE] }

(***************************************************************************)
(* components/MotionCapturer.jsx: the pipeline driver                      *)
(***************************************************************************)
\* results-handler invocations explored
MaxFrames == 2
\* clock advances explored
MaxTicks == 1
\* milliseconds of one clock advance
TickMs == 1100
\* TIMING.RECORDING_WARMUP
RECORDING_WARMUP == 1000

VARIABLES
    vrmRef,                  \* the avatar in the scene, or Null
    vrmVersionRef,           \* the rig version string handed to the arm solver
    landmarkFiltersRef,      \* Null or one low-pass filter per 2D landmark
    previousRiggedPoseRef,   \* Null or the pose retained for temporal smoothing
    recordedDataRef,         \* the recording buffer
    recordingStartTimeRef,
    isRecording,             \* prop
    captureSettings,         \* prop
    now,                     \* Date.now()
    frames,                  \* results-handler invocations so far
    sessionFrames,           \* frames rigged since mount or the last teardown
    lastFrame,               \* what the last step did (history)
    probe                    \* a solver's input and output, for the solver specifications

vars == <<vrmRef, vrmVersionRef, landmarkFiltersRef, previousRiggedPoseRef,
          recordedDataRef, recordingStartTimeRef, isRecording, captureSettings,
          now, frames, sessionFrames, lastFrame, probe>>

Idle ==
    [kind |-> "none", results |-> Null, worldLandmarks |-> Null,
     armPose |-> Null, bodyPose |-> Null, handPose |-> Null, facePose |-> Null,
     merged |-> Null, previous |-> Null, smoothed |-> Null, applied |-> Null,
     filtersBefore |-> Null, lowerBody |-> FALSE, recorded |-> FALSE, time |-> 0,
     stopped |-> FALSE, buffered |-> 0, downloaded |-> FALSE, download |-> << >>]

NoProbe == [stage |-> "none", solver |-> "none", input |-> Null, output |-> Null]

Init ==
    /\ vrmRef = Null
    /\ vrmVersionRef = "1"
    /\ landmarkFiltersRef = Null
    /\ previousRiggedPoseRef = Null
    /\ recordedDataRef = << >>
    /\ recordingStartTimeRef = 0
    /\ isRecording = FALSE
    /\ captureSettings = [captureLowerBody |-> TRUE]
    /\ now = 0
    /\ frames = 0
    /\ sessionFrames = 0
    /\ lastFrame = Idle
    /\ probe = NoProbe

\* a record whose input is the applied pose
RecordOfApplied(t, riggedPose, finalPose, landmarks, worldLandmarks) ==
    [t |-> t, input |-> finalPose, output |-> finalPose,
     rawLandmarks |-> landmarks, worldLandmarks |-> worldLandmarks]

\* the object pushed to the recording buffer
RecordOf(t, riggedPose, finalPose, landmarks, worldLandmarks) ==
    [t |-> t, input |-> riggedPose, output |-> finalPose,
     rawLandmarks |-> landmarks, worldLandmarks |-> worldLandmarks]

\* the world landmarks synthesized from the 2D landmarks whatever the
\* detector supplies
worldLandmarksSynthesized(results, filtersRef) ==
    generate3DLandmarks(
        results.poseLandmarks,
        IF filtersRef = Null
        THEN Array([i \in 1..results.poseLandmarks.length |-> NewFilter])
        ELSE filtersRef)

\* the world landmarks of the frame (the detector's, else synthesized from
\* the 2D landmarks) or Threw, and the filter bank afterwards
worldLandmarksOf(results, filtersRef) ==
    IF Truthy(results.za) THEN [out |-> results.za, filters |-> filtersRef]
    ELSE IF Truthy(results.poseWorldLandmarks)
    THEN [out |-> results.poseWorldLandmarks, filters |-> filtersRef]
    ELSE generate3DLandmarks(
             results.poseLandmarks,
             IF filtersRef = Null
             THEN Array([i \in 1..results.poseLandmarks.length |-> NewFilter])
             ELSE filtersRef)

\* a frame is pushed whenever recording is on, warm-up or not
shouldRecordAlways(isCurrentlyRecording, timeSinceStart) == isCurrentlyRecording

\* if (isCurrentlyRecording) if (timeSinceStart > TIMING.RECORDING_WARMUP)
shouldRecord(isCurrentlyRecording, timeSinceStart) ==
    isCurrentlyRecording /\ timeSinceStart > RECORDING_WARMUP

\* riggedPose.Face = facePose under "if (facePose)"
withFace(riggedPose, facePose) ==
    IF Truthy(facePose) THEN Assign(riggedPose, "Face" :> facePose) ELSE riggedPose

\* the handler returns before its try block
Skipped(kind, results) ==
    /\ lastFrame' = [Idle EXCEPT !.kind = kind, !.results = results]
    /\ UNCHANGED <<landmarkFiltersRef, previousRiggedPoseRef, recordedDataRef, sessionFrames>>

\* what the handler knows when it enters the solvers
Entered(results, worldLandmarks) ==
    [Idle EXCEPT !.results = results, !.worldLandmarks = worldLandmarks,
                 !.previous = previousRiggedPoseRef,
                 !.filtersBefore = landmarkFiltersRef,
                 !.lowerBody = captureSettings.captureLowerBody,
                 !.time = now]

\* the try block ends without a rigged pose: an exception was caught, or the
\* world landmarks were too few
Unrigged(frame, filters) ==
    /\ lastFrame' = frame
    /\ landmarkFiltersRef' = filters
    /\ UNCHANGED <<previousRiggedPoseRef, recordedDataRef, sessionFrames>>

\* resultsHandler(results): what it does to the refs of the component
\* const handPose = calculateHandRotations(results), for each detector result
handPoseOf == [results \in DetectorResults |-> calculateHandRotations(results)]

\* const facePose = results.faceLandmarks ?
\*     calculateFaceExpressions(results.faceLandmarks) : null
facePoseOf ==
    [results \in DetectorResults |->
        IF Truthy(results.faceLandmarks)
        THEN calculateFaceExpressions(results.faceLandmarks) ELSE Null]

resultsHandler(results) ==
    /\ frames < MaxFrames
    /\ frames' = frames + 1
    /\ UNCHANGED <<vrmRef, vrmVersionRef, recordingStartTimeRef, isRecording,
                   captureSettings, now>>
    /\ IF ~Truthy(results.poseLandmarks) THEN Skipped("noPose", results)
       ELSE IF ~Truthy(vrmRef) THEN Skipped("noVrm", results)
       ELSE
       \E w \in {worldLandmarksOf(results, landmarkFiltersRef)} :
       IF w.out = Threw
       THEN Unrigged([Entered(results, Threw) EXCEPT !.kind = "threw"], w.filters)
       ELSE IF w.out.length < MIN_WORLD_LANDMARKS
       THEN Unrigged([Entered(results, w.out) EXCEPT !.kind = "unrigged"], w.filters)
       ELSE
       \* calculateArmRotations(worldLandmarks, handLandmarksForArm, currentVrmVersion):
       \* the function has one parameter
       \E armPose \in {calculateArmRotations(w.out)},
          bodyPose \in {calculateBodyRotations(w.out)} :
       IF bodyPose = Threw
       THEN Unrigged([Entered(results, w.out) EXCEPT !.kind = "threw",
                          !.armPose = armPose, !.bodyPose = Threw], w.filters)
       ELSE
       \E handPose \in {handPoseOf[results]},
          facePose \in {facePoseOf[results]} :
       \* mergeRiggedPose(armPose, bodyPose, handPose): the function has two parameters
       \E merged \in {withFace(mergeRiggedPose(armPose, bodyPose), facePose)} :
       \E riggedPose \in {applyTemporalSmoothing(merged, previousRiggedPoseRef)} :
       \E finalPose \in {animateVRM(vrmRef, riggedPose, captureSettings)} :
       \E push \in {shouldRecord(isRecording, now - recordingStartTimeRef)} :
           /\ landmarkFiltersRef' = w.filters
           /\ previousRiggedPoseRef' = JsonCopy(riggedPose)
           /\ sessionFrames' = sessionFrames + 1
           /\ recordedDataRef' =
                  IF push
                  THEN Append(recordedDataRef,
                              RecordOf(now, riggedPose, finalPose,
                                       results.poseLandmarks, w.out))
                  ELSE recordedDataRef
           /\ lastFrame' = [Entered(results, w.out) EXCEPT
                               !.kind = "rigged", !.armPose = armPose,
                               !.bodyPose = bodyPose, !.handPose = handPose,
                               !.facePose = facePose, !.merged = merged,
                               !.smoothed = riggedPose, !.applied = finalPose,
                               !.recorded = push]

\* a detector result arrives
ResultsHandler(results) == resultsHandler(results) /\ UNCHANGED probe

\* the VRM loading effect's load callback: the avatar of a new vrmUrl arrives
LoadVRM(avatar) ==
    /\ avatar # vrmRef
    /\ vrmVersionRef' = avatar.metaVersion
    /\ vrmRef' = avatar
    /\ sessionFrames' = IF vrmRef = Null THEN sessionFrames ELSE 0
    /\ lastFrame' = [Idle EXCEPT !.kind = IF vrmRef = Null THEN "load" ELSE "swap"]
    /\ UNCHANGED <<landmarkFiltersRef, previousRiggedPoseRef, recordedDataRef,
                   recordingStartTimeRef, isRecording, captureSettings, now, frames,
                   probe>>

\* the sensing effect on a new videoFile: its cleanup stops the capture, then
\* startSensing starts it on the new source
SensingEffect ==
    /\ frames > 0
    /\ lastFrame.kind # "stop"
    /\ sessionFrames' = 0
    /\ lastFrame' = [Idle EXCEPT !.kind = "stop"]
    /\ UNCHANGED <<vrmRef, vrmVersionRef, landmarkFiltersRef, previousRiggedPoseRef,
                   recordedDataRef, recordingStartTimeRef, isRecording, captureSettings,
                   now, frames, probe>>

\* TRIM: the first and the last second of a recording are skipped
RECORDING_TRIM == 1000

\* allData.filter(d => d.t >= startCutoff && d.t <= endCutoff)
filteredData(allData) ==
    LET startCutoff == allData[1].t + RECORDING_TRIM
        endCutoff == allData[Len(allData)].t - RECORDING_TRIM
        Kept(d) == d.t >= startCutoff /\ d.t <= endCutoff
    IN  SelectSeq(allData, Kept)

\* the recording effect on a change of the isRecording prop
RecordingEffect ==
    /\ isRecording' = ~isRecording
    /\ IF isRecording
       THEN \* stop: a buffer that is not empty is trimmed, downloaded when
            \* something is left, and cleared
            /\ recordedDataRef' = << >>
            /\ UNCHANGED recordingStartTimeRef
            /\ \E data \in {IF Len(recordedDataRef) > 0 THEN filteredData(recordedDataRef)
                             ELSE << >>} :
                   lastFrame' = [Idle EXCEPT !.kind = "recording", !.stopped = TRUE,
                                             !.buffered = Len(recordedDataRef),
                                             !.downloaded = Len(data) > 0,
                                             !.download = data]
       ELSE \* start
            /\ recordedDataRef' = << >>
            /\ recordingStartTimeRef' = now
            /\ lastFrame' = [Idle EXCEPT !.kind = "recording"]
    /\ UNCHANGED <<vrmRef, vrmVersionRef, landmarkFiltersRef, previousRiggedPoseRef,
                   captureSettings, now, frames, sessionFrames, probe>>

\* the Lower Body Capture switch of the settings panel
ToggleLowerBody ==
    /\ captureSettings' = [captureSettings EXCEPT !.captureLowerBody = ~@]
    /\ UNCHANGED <<vrmRef, vrmVersionRef, landmarkFiltersRef, previousRiggedPoseRef,
                   recordedDataRef, recordingStartTimeRef, isRecording, now, frames,
                   sessionFrames, lastFrame, probe>>

\* time passes
Tick ==
    /\ now < MaxTicks * TickMs
    /\ now' = now + TickMs
    /\ UNCHANGED <<vrmRef, vrmVersionRef, landmarkFiltersRef, previousRiggedPoseRef,
                   recordedDataRef, recordingStartTimeRef, isRecording, captureSettings,
                   frames, sessionFrames, lastFrame, probe>>

Next ==
    \/ \E results \in DetectorResults : ResultsHandler(results)
    \/ \E avatar \in Avatars : LoadVRM(avatar)
    \/ SensingEffect
    \/ RecordingEffect
    \/ ToggleLowerBody
    \/ Tick

Spec == Init /\ [][Next]_vars

driverVars == <<vrmRef, vrmVersionRef, landmarkFiltersRef, previousRiggedPoseRef,
                recordedDataRef, recordingStartTimeRef, isRecording, captureSettings,
                now, frames, sessionFrames, lastFrame>>

\* the component as constructed, no frame handled
DriverAtRest ==
    /\ vrmRef = Null
    /\ vrmVersionRef = "1"
    /\ landmarkFiltersRef = Null
    /\ previousRiggedPoseRef = Null
    /\ recordedDataRef = << >>
    /\ recordingStartTimeRef = 0
    /\ isRecording = FALSE
    /\ captureSettings = [captureLowerBody |-> TRUE]
    /\ now = 0
    /\ frames = 0
    /\ sessionFrames = 0
    /\ lastFrame = Idle

(***************************************************************************)
(* The solvers as pure functions: an input is drawn, the solver is applied *)
(***************************************************************************)
Vec(v) == Pt(v[1], v[2], v[3])
Plus(p, v) == Pt(p.x + v[1], p.y + v[2], p.z + v[3])
Mirror(p) == Pt(-p.x, p.y, p.z)

\* elbow minus shoulder of the right arm: coincident, shorter than the
\* epsilon, level, raised, hanging, forward, straight up
ElbowOffsets ==
    {<<0, 0, 0>>, <<5, 0, 0>>, <<-300, 0, 0>>, <<-200, -200, 0>>, <<0, 300, 0>>,
     <<-200, 100, -200>>, <<0, -300, 0>>}

\* wrist minus elbow of the right arm
ForearmOffsets ==
    {<<0, 0, 0>>, <<-300, 0, 0>>, <<0, -300, 0>>, <<200, -200, 100>>, <<0, 300, 0>>}

RigVersions == {"0", "1"}

\* a pose whose left arm mirrors its right arm
ArmPose(elbowOffset, forearmOffset) ==
    LET rs == Pt(-200, -500, 0)
        re == Plus(rs, elbowOffset)
        rw == Plus(re, forearmOffset)
    IN  PoseArray(Pt(0, -650, -80), Mirror(rs), rs, Mirror(re), re, Mirror(rw), rw,
                  Pt(100, 0, 20), Pt(-100, 0, 20), Pt(0, 400, 0))

\* the horizontal T-pose arm: shoulder (0,0,0), elbow (0.3,0,0); the left arm
\* mirrors it
TPose(forearmOffset) ==
    LET rs == Pt(0, 0, 0)
        re == Pt(300, 0, 0)
        rw == Plus(re, forearmOffset)
    IN  PoseArray(Pt(0, -150, -80), Mirror(rs), rs, Mirror(re), re, Mirror(rw), rw,
                  Pt(100, 500, 20), Pt(-100, 500, 20), Pt(0, 900, 0))

ArmInputs ==
    {[worldLandmarks |-> ArmPose(e, f),
      handLandmarks |-> [leftHandLandmarks |-> h, rightHandLandmarks |-> h],
      vrmVersion |-> v, elbowOffset |-> Vec(e), forearmOffset |-> Vec(f)] :
        e \in ElbowOffsets, f \in ForearmOffsets, h \in {Null, HandOpen},
        v \in RigVersions}
    \cup
    {[worldLandmarks |-> TPose(f),
      handLandmarks |-> [leftHandLandmarks |-> h, rightHandLandmarks |-> h],
      vrmVersion |-> v, elbowOffset |-> Vec(<<300, 0, 0>>), forearmOffset |-> Vec(f)] :
        f \in {<<300, 0, 0>>, <<0, -300, 0>>}, h \in {Null, HandOpen}, v \in RigVersions}

\* eyelid gaps, from shut to wide open (the eye is 60 wide)
EyeOpenings == {0, 2, 4, 8, 15}

\* the face array with 2D points (no z)
Flat(face) == [face EXCEPT !.items = [i \in DOMAIN @ |-> Pt2(@[i].x, @[i].y)]]

\* mouth height and width: closed and wide, open and narrow, half open, wide open
MouthShapes == {<<10, 90>>, <<40, 60>>, <<35, 70>>, <<100, 200>>, <<45, 100>>, <<20, 90>>}

FaceInputs ==
    {FaceArray(n, l, r, m[1], m[2]) :
        n \in {FACE_MESH_POINTS, FACE_MIN_LENGTH}, l \in EyeOpenings, r \in EyeOpenings,
        m \in MouthShapes}
    \cup
    {Flat(FaceArray(FACE_MIN_LENGTH, l, l, m[1], m[2])) : l \in EyeOpenings, m \in MouthShapes}

\* hand arrays: absent, null, empty, short (10 and 20 points), complete
HandArrays ==
    {Undefined, Null, Array(<< >>), slice(HandCurled, 0, 10), slice(HandCurled, 0, 20),
     HandCurled, HandOpen}

\* a pose and the array the detector reports for both hands
HandInputs ==
    {[worldLandmarks |-> ArmPose(e, f), hand |-> h, vrmVersion |-> v,
      elbowOffset |-> Vec(e), forearmOffset |-> Vec(f)] :
        e \in {<<-300, 0, 0>>, <<-200, 100, -200>>},
        f \in {<<-300, 0, 0>>, <<200, -200, 100>>, <<0, 300, -100>>},
        h \in HandArrays, v \in RigVersions}

\* the array with entry i null or undefined
WithGap(arr, i, v) == [arr EXCEPT !.items[i + 1] = v]

ArmLandmarks == {RIGHT_SHOULDER, RIGHT_ELBOW, RIGHT_WRIST,
                 LEFT_SHOULDER, LEFT_ELBOW, LEFT_WRIST}

\* poses with one arm landmark null or absent, beside the complete pose
GapInputs ==
    {[worldLandmarks |-> WithGap(w, i, gap), complete |-> w, missing |-> i,
      handLandmarks |-> [leftHandLandmarks |-> h, rightHandLandmarks |-> h],
      vrmVersion |-> v] :
        w \in {ArmPose(<<-200, -200, 0>>, <<200, -200, 100>>),
               ArmPose(<<-200, 100, -200>>, <<0, 300, 0>>), WorldRaised},
        i \in ArmLandmarks, gap \in {Null, Undefined}, h \in {Null, HandCurled},
        v \in RigVersions}
    \cup
    {[worldLandmarks |-> slice(w, 0, RIGHT_WRIST), complete |-> w, missing |-> RIGHT_WRIST,
      handLandmarks |-> Null, vrmVersion |-> v] :
        w \in {ArmPose(<<-200, -200, 0>>, <<200, -200, 100>>), WorldRaised},
        v \in RigVersions}

\* TIMING.DEBUG_LOG_SAMPLE_RATE is 0.02
DEBUG_LOG_SAMPLE_RATE == 20
\* the rig-aware solver samples its logs at 0.2
RIG_LOG_SAMPLE_RATE == 200

\* the Math.random() results of a call, one per log site, in thousandths
RandomDraws ==
    {<<10, 10, 10, 10>>, <<500, 500, 500, 500>>, <<10, 500, 100, 500>>, <<500, 100, 500, 10>>}

\* what a call finds outside its arguments: Math.random() and the
\* calculateArmRotations._versionLogged flag
Environments == {[random |-> r, versionLogged |-> f] : r \in RandomDraws, f \in BOOLEAN}

\* the console.log calls of the sites whose draw is below the rate
Sampled(sites, random, rate) ==
    LET Below(i) == random[i] < rate
    IN  [i \in {j \in DOMAIN sites : Below(j)} |-> sites[i]]

\* a call of the arm solver on a pose with both arms present: the value
\* returned and the lines logged
calculateArmRotationsCall(worldLandmarks, env) ==
    [value |-> calculateArmRotations(worldLandmarks),
     console |-> Sampled(<<"[Right Arm]", "[Left Arm]">>, env.random, DEBUG_LOG_SAMPLE_RATE),
     versionLogged |-> env.versionLogged]

\* a call of the rig-aware solver whose rig version is the default until the
\* version has been logged
calculateArmRotationsRigCallDefaulted(worldLandmarks, handLandmarks, vrmVersion, env) ==
    [value |-> calculateArmRotationsRig(worldLandmarks, handLandmarks,
                                        IF env.versionLogged THEN vrmVersion ELSE "1"),
     console |-> Sampled(<<"[RIGHT ARM]", "[RIGHT ARM] after", "[LEFT ARM]", "[LEFT ARM] after">>,
                         env.random, RIG_LOG_SAMPLE_RATE),
     versionLogged |-> TRUE]

\* a call of the rig-aware arm solver on a pose with both arms present: the
\* value returned, the lines logged and the log-once flag afterwards
calculateArmRotationsRigCall(worldLandmarks, handLandmarks, vrmVersion, env) ==
    [value |-> calculateArmRotationsRig(worldLandmarks, handLandmarks, vrmVersion),
     console |-> Sampled(<<"[RIGHT ARM]", "[RIGHT ARM] after", "[LEFT ARM]", "[LEFT ARM] after">>,
                         env.random, RIG_LOG_SAMPLE_RATE),
     versionLogged |-> TRUE]

\* what the solvers and the smoother return for the arguments in the
\* environment
Returned(args, env) ==
    LET named == calculateArmRotationsCall(args.worldLandmarks, env).value
        rig == calculateArmRotationsRigCall(args.worldLandmarks, args.handLandmarks,
                                            args.vrmVersion, env).value
    IN  [named |-> named, rig |-> rig,
         smoothed |-> applyTemporalSmoothing(named, args.previousPose),
         smoothedRig |-> applyTemporalSmoothingRig(rig, args.previousPose)]

\* what the calls print
Logged(args, env) ==
    [named |-> calculateArmRotationsCall(args.worldLandmarks, env).console,
     rig |-> calculateArmRotationsRigCall(args.worldLandmarks, args.handLandmarks,
                                          args.vrmVersion, env).console,
     version |-> ~env.versionLogged]

\* arguments of a call and the environment it runs in
CallInputs ==
    {[worldLandmarks |-> w,
      handLandmarks |-> [leftHandLandmarks |-> h, rightHandLandmarks |-> h],
      vrmVersion |-> v, previousPose |-> q, env |-> env] :
        w \in {ArmPose(<<-200, -200, 0>>, <<200, -200, 100>>), WorldRaised,
               TPose(<<0, -300, 0>>)},
        h \in {Null, HandOpen}, v \in RigVersions,
        q \in {Null, calculateArmRotations(WorldLevel)}, env \in Environments}

InitSolvers ==
    /\ vrmRef = Null
    /\ vrmVersionRef = "1"
    /\ landmarkFiltersRef = Null
    /\ previousRiggedPoseRef = Null
    /\ recordedDataRef = << >>
    /\ recordingStartTimeRef = 0
    /\ isRecording = FALSE
    /\ captureSettings = [captureLowerBody |-> TRUE]
    /\ now = 0
    /\ frames = 0
    /\ sessionFrames = 0
    /\ lastFrame = Idle
    /\ \/ \E in \in ArmInputs :
            probe = [stage |-> "input", solver |-> "arm", input |-> in, output |-> Null]
       \/ \E in \in FaceInputs :
            probe = [stage |-> "input", solver |-> "face", input |-> in, output |-> Null]

\* the arm solver of utils/poseCalculations.js and its rig-aware variant
SolveArm ==
    /\ probe.stage = "input"
    /\ probe.solver = "arm"
    /\ probe' = [probe EXCEPT
                    !.stage = "output",
                    !.output = [named |-> calculateArmRotations(probe.input.worldLandmarks),
                                rig |-> calculateArmRotationsRig(probe.input.worldLandmarks,
                                                                 probe.input.handLandmarks,
                                                                 probe.input.vrmVersion)]]
    /\ UNCHANGED <<vrmRef, vrmVersionRef, landmarkFiltersRef, previousRiggedPoseRef,
                   recordedDataRef, recordingStartTimeRef, isRecording, captureSettings,
                   now, frames, sessionFrames, lastFrame>>

\* utils/faceCalculations.js
SolveFace ==
    /\ probe.stage = "input"
    /\ probe.solver = "face"
    /\ probe' = [probe EXCEPT !.stage = "output",
                              !.output = calculateFaceExpressions(probe.input)]
    /\ UNCHANGED <<vrmRef, vrmVersionRef, landmarkFiltersRef, previousRiggedPoseRef,
                   recordedDataRef, recordingStartTimeRef, isRecording, captureSettings,
                   now, frames, sessionFrames, lastFrame>>

\* utils/handCalculations.js on the hand arrays of a frame, and the rig-aware
\* arm solver on the same arrays
SolveHand ==
    /\ probe.stage = "input"
    /\ probe.solver = "hand"
    /\ probe' = [probe EXCEPT
                    !.stage = "output",
                    !.output = [left |-> calculateFingerRotations(probe.input.hand, TRUE),
                                right |-> calculateFingerRotations(probe.input.hand, FALSE),
                                fingers |-> calculateHandRotations(
                                                Results(Undefined, Undefined, probe.input.hand,
                                                        probe.input.hand, Undefined)),
                                arm |-> calculateArmRotationsRig(
                                            probe.input.worldLandmarks,
                                            [leftHandLandmarks |-> probe.input.hand,
                                             rightHandLandmarks |-> probe.input.hand],
                                            probe.input.vrmVersion)]]
    /\ UNCHANGED driverVars

\* the two arm solvers on a pose with a landmark missing, and on the pose
\* with the landmark in place
SolveArmGap ==
    /\ probe.stage = "input"
    /\ probe.solver = "armGap"
    /\ probe' = [probe EXCEPT
                    !.stage = "output",
                    !.output = [named |-> calculateArmRotations(probe.input.worldLandmarks),
                                rig |-> calculateArmRotationsRig(probe.input.worldLandmarks,
                                                                 probe.input.handLandmarks,
                                                                 probe.input.vrmVersion),
                                namedComplete |-> calculateArmRotations(probe.input.complete),
                                rigComplete |-> calculateArmRotationsRig(
                                                    probe.input.complete,
                                                    probe.input.handLandmarks,
                                                    probe.input.vrmVersion)]]
    /\ UNCHANGED driverVars

\* the arm solvers and the smoother called in an environment
SolveCall ==
    /\ probe.stage = "input"
    /\ probe.solver = "call"
    /\ \E named \in {calculateArmRotationsCall(probe.input.worldLandmarks, probe.input.env)},
          rig \in {calculateArmRotationsRigCall(probe.input.worldLandmarks,
                                                probe.input.handLandmarks,
                                                probe.input.vrmVersion, probe.input.env)} :
       \E smoothed \in {applyTemporalSmoothing(named.value, probe.input.previousPose)},
          smoothedRig \in {applyTemporalSmoothingRig(rig.value, probe.input.previousPose)} :
          probe' = [probe EXCEPT
                       !.stage = "output",
                       !.output = [returned |-> [named |-> named.value, rig |-> rig.value,
                                                 smoothed |-> smoothed,
                                                 smoothedRig |-> smoothedRig],
                                   logged |-> [named |-> named.console, rig |-> rig.console,
                                               version |-> ~probe.input.env.versionLogged]]]
    /\ UNCHANGED driverVars

NextSolvers ==
    \/ SolveArm
    \/ SolveFace

SpecSolvers == InitSolvers /\ [][NextSolvers]_vars

\* the finger solver, and the rig-aware arm solver, on the hand arrays
InitHands ==
    /\ DriverAtRest
    /\ \E in \in HandInputs :
          probe = [stage |-> "input", solver |-> "hand", input |-> in, output |-> Null]

NextHands == SolveHand

SpecHands == InitHands /\ [][NextHands]_vars

\* the arm solvers on poses with a landmark missing
InitArmGap ==
    /\ DriverAtRest
    /\ \E in \in GapInputs :
          probe = [stage |-> "input", solver |-> "armGap", input |-> in, output |-> Null]

NextArmGap == SolveArmGap

SpecArmGap == InitArmGap /\ [][NextArmGap]_vars

\* the arm solvers and the smoother called in the environments
InitCalls ==
    /\ DriverAtRest
    /\ \E in \in CallInputs :
          probe = [stage |-> "input", solver |-> "call", input |-> in, output |-> Null]

NextCalls == SolveCall

SpecCalls == InitCalls /\ [][NextCalls]_vars

(***************************************************************************)
(* The temporal smoother fed the same raw pose on every frame, the way the *)
(* results handler uses it: the smoothed pose is retained (deep-copied) as *)
(* the previous pose of the next frame.                                    *)
(***************************************************************************)
\* frames the same pose is fed for
MaxSmoothFrames == 4

\* a rigged pose: an arm bone, the head, a bone no smoother touches, a Face block
SmootherPose(arm, head, face) ==
    [RightUpperArm |-> arm, Head |-> head, Chest |-> head,
     Face |-> [blinkLeft |-> face, mouthA |-> face]]

\* the pose fed on every frame
SmootherCurrents ==
    { SmootherPose(Pt(0, 0, 0), Pt(100, 0, -100), 0),
      SmootherPose(Pt(1000, -500, 2000), Pt(0, 300, 0), 1000),
      SmootherPose(Pt(-1500, 700, 300), Pt(-200, 0, 200), 500),
      SmootherPose(Pt(37, -1, 1571), Pt(0, 0, 0), 650) }

\* the pose retained before the first of those frames
SmootherPrevious ==
    { SmootherPose(Pt(0, 0, 0), Pt(0, 0, 0), 0),
      SmootherPose(Pt(1000, 500, -2000), Pt(500, -200, 0), 1000),
      SmootherPose(Pt(-1000, 0, 1000), Pt(-300, 300, 300), 0),
      SmootherPose(Pt(2000, -1500, 300), Pt(100, 0, -100), 200),
      SmootherPose(Pt(37, 1, -1571), Pt(-500, 500, 100), 1000),
      SmootherPose(Pt(-2000, 2000, 2000), Pt(500, 500, -500), 500) }

InitSmoother ==
    /\ DriverAtRest
    /\ \E c \in SmootherCurrents, q \in SmootherPrevious :
          probe = [stage |-> "input", solver |-> "smoother",
                   input |-> [currentPose |-> c, previousPose |-> q],
                   output |-> [n |-> 0, named |-> q, rig |-> q,
                               priorNamed |-> q, priorRig |-> q]]

\* one frame: riggedPose = applyTemporalSmoothing(riggedPose, previous);
\* previous = JSON.parse(JSON.stringify(riggedPose))
SmoothFrame ==
    /\ probe.solver = "smoother"
    /\ probe.output.n < MaxSmoothFrames
    /\ probe' = [probe EXCEPT
                    !.stage = "output",
                    !.output = [n |-> probe.output.n + 1,
                                named |-> JsonCopy(applyTemporalSmoothing(
                                              probe.input.currentPose, probe.output.named)),
                                rig |-> JsonCopy(applyTemporalSmoothingRig(
                                              probe.input.currentPose, probe.output.rig)),
                                priorNamed |-> probe.output.named,
                                priorRig |-> probe.output.rig]]
    /\ UNCHANGED driverVars

NextSmoother == SmoothFrame

SpecSmoother == InitSmoother /\ [][NextSmoother]_vars

(***************************************************************************)
(* One call of the temporal smoother, with the objects it is handed: the   *)
(* pose returned, and the current and the previous pose as the call leaves *)
(* them.  The poses hold what the driver merges: arm and body bones, null  *)
(* bones, a finger bone, Hips with its worldPosition, a Face block.        *)
(***************************************************************************)
\* smoothedPose is currentPose itself: the blend is written into the caller's pose
applyTemporalSmoothingInPlace(currentPose, previousPose) ==
    [returned |-> applyTemporalSmoothing(currentPose, previousPose),
     currentPose |-> applyTemporalSmoothing(currentPose, previousPose),
     previousPose |-> previousPose,
     copied |-> FALSE]

\* applyTemporalSmoothing(currentPose, previousPose): every write goes to
\* smoothedPose, the deep copy made when there is a previous pose
applyTemporalSmoothingEffect(currentPose, previousPose) ==
    [returned |-> applyTemporalSmoothing(currentPose, previousPose),
     currentPose |-> currentPose,
     previousPose |-> previousPose,
     copied |-> Truthy(previousPose)]

\* the same call of the variant kept beside the rig-aware arm solver;
\* smoothedPose.Face = {} replaces the copy's Face block
applyTemporalSmoothingRigEffect(currentPose, previousPose) ==
    [returned |-> applyTemporalSmoothingRig(currentPose, previousPose),
     currentPose |-> currentPose,
     previousPose |-> previousPose,
     copied |-> Truthy(previousPose)]

FaceValues(blink, mouth) ==
    [blinkLeft |-> blink, blinkRight |-> 1000 - blink,
     mouthA |-> mouth, mouthI |-> 0, mouthU |-> 600, mouthE |-> 500 - mouth \div 2,
     mouthO |-> mouth \div 2]

\* a merged pose as calculateBodyRotations, the arm solver, the finger
\* solver and the face solver fill it
MergedPose(arm, head, hips, finger, face) ==
    [RightUpperArm |-> arm, LeftUpperArm |-> Pt(-arm.x, arm.y + 100, -arm.z),
     RightLowerArm |-> Pt(0, arm.y, 0),
     Hips |-> [x |-> 0, y |-> 0, z |-> hips, rotation |-> ZeroTriple,
               worldPosition |-> Pt(hips, 2 * hips, 0)],
     Spine |-> Pt(0, 0, -hips),
     Chest |-> Null, Neck |-> head,
     Head |-> IF head = Null THEN Null ELSE Pt(head.x \div 2, head.y \div 2, 0),
     RightShoulder |-> ZeroTriple,
     leftIndexProximal |-> finger,
     Face |-> face]

\* the pose without the entries named
Without(pose, keys) == [k \in DOMAIN pose \ keys |-> pose[k]]

SmoothingCurrents ==
    { MergedPose(Pt(1000, -500, 2000), Pt(600, 300, 0), 200, Pt(0, 0, 900),
                 FaceValues(1000, 800)),
      MergedPose(Pt(-1500, 700, 300), Null, -400, Pt(0, 0, -300), FaceValues(0, 0)),
      Without(MergedPose(Pt(40, -10, 1570), Pt(-200, 0, 0), 100, Pt(0, 0, 0), Null),
              {"Face", "leftIndexProximal"}),
      Without(MergedPose(Pt(0, 0, 0), Pt(300, -600, 0), 0, Pt(0, 0, 1200),
                         FaceValues(500, 300)), {"RightLowerArm"}) }

SmoothingPrevious ==
    { Null,
      MergedPose(Pt(0, 0, 0), Pt(0, 0, 0), 0, Pt(0, 0, 0), FaceValues(0, 0)),
      MergedPose(Pt(1000, 500, -2000), Pt(500, -200, 0), 300, Pt(0, 0, 500),
                 FaceValues(1000, 1000)),
      MergedPose(Pt(-1000, 0, 1000), Null, -100, Pt(0, 0, 100), FaceValues(200, 400)),
      Without(MergedPose(Pt(2000, -1500, 300), Pt(100, 0, 0), 500, Pt(0, 0, 0), Null),
              {"Face", "leftIndexProximal"}),
      Without(MergedPose(Pt(30, 10, -1570), Pt(-500, 500, 0), 0, Pt(0, 0, 700),
                         FaceValues(1000, 0)), {"Hips", "Spine"}),
      Without(MergedPose(Pt(-2000, 2000, 2000), Pt(500, 500, 0), -200, Pt(0, 0, -900),
                         FaceValues(400, 600)), {"RightUpperArm", "Neck", "Head"}) }

\* the vrm versions the pose is applied for
SmoothingVersions == {"0", "1"}

InitSmoothing ==
    /\ DriverAtRest
    /\ \E c \in SmoothingCurrents, q \in SmoothingPrevious, v \in SmoothingVersions :
          probe = [stage |-> "input", solver |-> "smoothing",
                   input |-> [currentPose |-> c, previousPose |-> q, vrmVersion |-> v],
                   output |-> Null]

\* riggedPose = applyTemporalSmoothing(riggedPose, previousRiggedPoseRef.current)
SmoothPose ==
    /\ probe.stage = "input"
    /\ probe.solver = "smoothing"
    /\ probe' = [probe EXCEPT
                    !.stage = "output",
                    !.output = [named |-> applyTemporalSmoothingEffect(
                                              probe.input.currentPose,
                                              probe.input.previousPose),
                                rig |-> applyTemporalSmoothingRigEffect(
                                            probe.input.currentPose,
                                            probe.input.previousPose)]]
    /\ UNCHANGED driverVars

NextSmoothing == SmoothPose

SpecSmoothing == InitSmoothing /\ [][NextSmoothing]_vars

(***************************************************************************)
(* One LowPassFilter of the bank, fed samples and reset.                   *)
(***************************************************************************)
\* samples fed to the filter
MaxSamples == 3

\* landmarks of a detector result: x, y, z and, for a pose point, visibility
FilterSamples ==
    { [x |-> 500, y |-> 500, z |-> 0, visibility |-> 900],
      [x |-> 400, y |-> 700, z |-> -300, visibility |-> 1000],
      [x |-> -100, y |-> 1200, z |-> 250, visibility |-> 0],
      Pt(600, 300, -50) }

InitFilter ==
    /\ DriverAtRest
    /\ probe = [stage |-> "constructed", solver |-> "filter", input |-> Null,
                output |-> [f |-> NewFilter, prior |-> NewFilter, out |-> Null,
                            n |-> 0, resets |-> 0, wasReset |-> FALSE]]

\* filter.filter(value)
FilterSample(value) ==
    /\ probe.solver = "filter"
    /\ probe.output.n < MaxSamples
    /\ \E r \in {filter(probe.output.f, value)} :
          probe' = [probe EXCEPT !.stage = "filtered",
                                 !.input = value,
                                 !.output.prior = probe.output.f,
                                 !.output.f = r.f,
                                 !.output.out = r.out,
                                 !.output.n = @ + 1,
                                 !.output.wasReset = probe.stage = "reset"]
    /\ UNCHANGED driverVars

\* filter.reset()
ResetFilter ==
    /\ probe.solver = "filter"
    /\ probe.stage = "filtered"
    /\ probe' = [probe EXCEPT !.stage = "reset",
                              !.output.prior = probe.output.f,
                              !.output.resets = 1,
                              !.output.f = reset(probe.output.f)]
    /\ UNCHANGED driverVars

NextFilter ==
    \/ \E value \in FilterSamples : FilterSample(value)
    \/ ResetFilter

SpecFilter == InitFilter /\ [][NextFilter]_vars

(***************************************************************************)
(* The arm solver on the two sources of world landmarks for one pose: the  *)
(* points generate3DLandmarks synthesizes from the 2D landmarks, and the   *)
(* detector's 3D world landmarks (Y+ downward).  Each pose comes with the  *)
(* same pose with the elbows at shoulder height.                           *)
(***************************************************************************)
\* 2D landmarks: elbows edx beside and edy below the shoulders, wrists wdy
\* below the elbows
ImagePose(edx, edy, wdy) ==
    PoseArray(Pt2(500, 200), Pt2(600, 300), Pt2(400, 300),
              Pt2(600 + edx, 300 + edy), Pt2(400 - edx, 300 + edy),
              Pt2(600 + edx, 300 + edy + wdy), Pt2(400 - edx, 300 + edy + wdy),
              Pt2(560, 600), Pt2(440, 600), Pt2(500, 800))

\* the detector's world landmarks of that pose, metres about the hips
WorldPose(edx, edy, wdy) ==
    PoseArray(Pt(0, -800, -80), Pt(200, -600, 0), Pt(-200, -600, 0),
              Pt(200 + 2 * edx, -600 + 2 * edy, 0), Pt(-200 - 2 * edx, -600 + 2 * edy, 0),
              Pt(200 + 2 * edx, -600 + 2 * (edy + wdy), 0),
              Pt(-200 - 2 * edx, -600 + 2 * (edy + wdy), 0),
              Pt(120, 0, 0), Pt(-120, 0, 0), Pt(0, 600, 0))

ElbowAside == {100, 150, 200}
ElbowBelow == {-200, -100, 0, 100, 200}
WristBelow == {-150, 0, 150, 300}

\* landmarks.map(() => new LowPassFilter(SMOOTHING.LANDMARK_FILTER))
FreshFilters(landmarks) == Array([i \in 1..landmarks.length |-> NewFilter])

InitSynth ==
    /\ DriverAtRest
    /\ \E edx \in ElbowAside, edy \in ElbowBelow, wdy \in WristBelow :
          probe = [stage |-> "input", solver |-> "synth",
                   input |-> [image |-> ImagePose(edx, edy, wdy),
                              world |-> WorldPose(edx, edy, wdy),
                              imageLevel |-> ImagePose(edx, 0, wdy),
                              worldLevel |-> WorldPose(edx, 0, wdy),
                              elbowBelow |-> edy],
                   output |-> Null]

\* worldLandmarks = generate3DLandmarks(landmarks, filters), then
\* calculateArmRotations(worldLandmarks), and the same on the detector's
\* own world landmarks
SolveSynth ==
    /\ probe.stage = "input"
    /\ probe.solver = "synth"
    /\ \E s \in {generate3DLandmarks(probe.input.image,
                                     FreshFilters(probe.input.image)).out},
          l \in {generate3DLandmarks(probe.input.imageLevel,
                                     FreshFilters(probe.input.imageLevel)).out} :
          probe' = [probe EXCEPT
                       !.stage = "output",
                       !.output = [synthesized |-> s,
                                   fromSynthesized |-> calculateArmRotations(s),
                                   fromWorld |-> calculateArmRotations(probe.input.world),
                                   levelSynthesized |-> calculateArmRotations(l),
                                   levelWorld |->
                                       calculateArmRotations(probe.input.worldLevel)]]
    /\ UNCHANGED driverVars

NextSynth == SolveSynth

SpecSynth == InitSynth /\ [][NextSynth]_vars

(***************************************************************************)
(* The leg solver on world landmarks (Y+ downward): the thigh swung in the *)
(* sagittal plane, the shin bent at the knee, and landmarks missing.       *)
(***************************************************************************)
\* a 33-point array: the hips, the right leg's knee and ankle given from
\* the hip, the left leg mirrored with the swing reversed
LegArray(knee, shin, gap) ==
    Array([i \in 1..POSE_POINTS |->
        CASE i - 1 = gap -> Undefined
          [] i - 1 = RIGHT_HIP -> Pt(-100, 0, 0)
          [] i - 1 = LEFT_HIP -> Pt(100, 0, 0)
          [] i - 1 = RIGHT_KNEE -> Pt(-100 + knee.x, knee.y, knee.z)
          [] i - 1 = LEFT_KNEE -> Pt(100 - knee.x, knee.y, -knee.z)
          [] i - 1 = RIGHT_ANKLE ->
                Pt(-100 + knee.x + shin.x, knee.y + shin.y, knee.z + shin.z)
          [] i - 1 = LEFT_ANKLE ->
                Pt(100 - knee.x - shin.x, knee.y + shin.y, shin.z - knee.z)
          [] OTHER -> Pt(0, -500, 0)])

\* hip to knee: standing, within the dead zone, swung, level, raised, none
Thighs ==
    { Pt(0, 400, 0), Pt(0, 400, -40), Pt(20, 400, 50), Pt(0, 400, -70),
      Pt(0, 350, -200), Pt(0, 0, -400), Pt(0, -400, 0), Pt(0, -300, 300),
      Pt(0, 0, 0) }

\* knee to ankle: straight, bent a little, bent, folded back, none
Shins ==
    { Pt(0, 400, 0), Pt(0, 400, 100), Pt(0, 380, 250), Pt(0, 300, 300),
      Pt(0, 0, 400), Pt(0, -400, 0), Pt(0, 0, 0) }

\* the landmark the detector left out (POSE_POINTS: none)
LegGaps == {POSE_POINTS, RIGHT_HIP, LEFT_KNEE, RIGHT_ANKLE}

InitLegs ==
    /\ DriverAtRest
    /\ \E knee \in Thighs, shin \in Shins, gap \in LegGaps :
          probe = [stage |-> "input", solver |-> "leg",
                   input |-> [worldLandmarks |-> LegArray(knee, shin, gap),
                              knee |-> knee, shin |-> shin, gap |-> gap],
                   output |-> Null]

SolveLegs ==
    /\ probe.stage = "input"
    /\ probe.solver = "leg"
    /\ probe' = [probe EXCEPT
                    !.stage = "output",
                    !.output = calculateLegRotations(probe.input.worldLandmarks)]
    /\ UNCHANGED driverVars

NextLegs == SolveLegs

SpecLegs == InitLegs /\ [][NextLegs]_vars

(***************************************************************************)
(* The body solvers on world landmarks with the head turned and tilted,    *)
(* and with the nose or an ear missing.                                    *)
(***************************************************************************)
\* a 33-point array: the nose given from the centre of the ears
HeadArray(forward, gap) ==
    Array([i \in 1..POSE_POINTS |->
        CASE i - 1 = gap -> Undefined
          [] i - 1 = NOSE -> Pt(forward.x, -650 + forward.y, forward.z)
          [] i - 1 = LEFT_EAR -> Pt(80, -650, 0)
          [] i - 1 = RIGHT_EAR -> Pt(-80, -650, 0)
          [] i - 1 = LEFT_SHOULDER -> Pt(200, -500, 0)
          [] i - 1 = RIGHT_SHOULDER -> Pt(-200, -500, 0)
          [] i - 1 = LEFT_HIP -> Pt(100, 0, 20)
          [] i - 1 = RIGHT_HIP -> Pt(-100, 0, 20)
          [] OTHER -> Pt(0, 400, 0)])

HeadTurns == {-80, -30, 0, 50, 100}
HeadTilts == {-60, 0, 30, 90}
HeadDepths == {-100, -60, 0, 40}

\* the landmark the detector left out (POSE_POINTS: none)
HeadGaps == {POSE_POINTS, NOSE, LEFT_EAR, RIGHT_EAR}

InitHead ==
    /\ DriverAtRest
    /\ \E x \in HeadTurns, y \in HeadTilts, z \in HeadDepths, gap \in HeadGaps :
          probe = [stage |-> "input", solver |-> "head",
                   input |-> [worldLandmarks |-> HeadArray(Pt(x, y, z), gap),
                              forward |-> Pt(x, y, z), gap |-> gap],
                   output |-> Null]

\* bodyPose = calculateBodyRotations(worldLandmarks): the function the
\* driver imports, and the head and neck of the variant
SolveHead ==
    /\ probe.stage = "input"
    /\ probe.solver = "head"
    /\ probe' = [probe EXCEPT
                    !.stage = "output",
                    !.output = [named |-> calculateBodyRotations(probe.input.worldLandmarks),
                                rig |-> headRotations(probe.input.worldLandmarks)]]
    /\ UNCHANGED driverVars

NextHead == SolveHead

SpecHead == InitHead /\ [][NextHead]_vars

(***************************************************************************)
(* The eye-gaze solver on faces whose eye corners or eyelids may coincide. *)
(***************************************************************************)
\* a face with the left eye about (400, 400) and the right about (600, 400):
\* half widths, half height of the left eye, and the irises from the centres
GazeFace(length, leftHalf, rightHalf, halfHeight, leftIris, rightIrisX) ==
    [length |-> length,
     items |-> (LEFT_EYE_INNER :> Pt(400 + leftHalf, 400, 0)
              @@ LEFT_EYE_OUTER :> Pt(400 - leftHalf, 400, 0)
              @@ RIGHT_EYE_INNER :> Pt(600 - rightHalf, 400, 0)
              @@ RIGHT_EYE_OUTER :> Pt(600 + rightHalf, 400, 0)
              @@ LEFT_EYE_TOP :> Pt(400, 400 - halfHeight, 0)
              @@ LEFT_EYE_BOTTOM :> Pt(400, 400 + halfHeight, 0)
              @@ LEFT_IRIS_CENTER :> Pt(400 + leftIris[1], 400 + leftIris[2], 0)
              @@ RIGHT_IRIS_CENTER :> Pt(600 + rightIrisX, 400, 0))]

EyeHalfWidths == {0, 30}
EyeHalfHeights == {0, 10}
LeftIrises == {<<0, 0>>, <<-10, 0>>, <<20, -5>>, <<-40, 20>>, <<0, 4>>}
RightIrises == {-10, 0, 40}

GazeInputs ==
    {GazeFace(n, l, r, h, i, j) :
        n \in {FACE_MESH_POINTS, FACE_MIN_LENGTH}, l \in EyeHalfWidths,
        r \in EyeHalfWidths, h \in EyeHalfHeights, i \in LeftIrises, j \in RightIrises}

InitGaze ==
    /\ DriverAtRest
    /\ \E face \in GazeInputs :
          probe = [stage |-> "input", solver |-> "gaze", input |-> face, output |-> Null]

SolveGaze ==
    /\ probe.stage = "input"
    /\ probe.solver = "gaze"
    /\ probe' = [probe EXCEPT !.stage = "output",
                              !.output = calculateEyeGaze(probe.input)]
    /\ UNCHANGED driverVars

NextGaze == SolveGaze

SpecGaze == InitGaze /\ [][NextGaze]_vars

(***************************************************************************)
(* The engine status: the heartbeat of the render loop and the results     *)
(* handler.  Both closures are made by effects with no dependencies, so    *)
(* the engineStatus they read is the one of the render they were made in.  *)
(***************************************************************************)
\* clock advances explored
MaxQuietTicks == 3
\* the animation frame ids wrap at this number
MaxAnimId == 2
\* TIMING.ENGINE_STALL_TIMEOUT
ENGINE_STALL_TIMEOUT == 2000

\* the mounted component: useState('Initializing'), useRef(Date.now())
InitHeartbeat ==
    /\ DriverAtRest
    /\ probe = [stage |-> "mounted", solver |-> "engine", input |-> Null,
                output |-> [engineStatus |-> "Initializing", closure |-> "Initializing",
                            lastSuccessRef |-> 0, animId |-> 1]]

\* animate(): the heartbeat compares the engineStatus of its closure
Animate ==
    /\ probe' = [probe EXCEPT
                    !.output.animId = (@ % MaxAnimId) + 1,
                    !.output.engineStatus =
                        IF /\ now - probe.output.lastSuccessRef > ENGINE_STALL_TIMEOUT
                           /\ probe.output.closure = "Running"
                        THEN "Stalled" ELSE @]
    /\ UNCHANGED driverVars

\* resultsHandler(results): lastSuccessRef.current = Date.now(), and
\* setEngineStatus('Running') unless the closure's engineStatus is Running
HeartbeatResults(results) ==
    /\ resultsHandler(results)
    /\ probe' = [probe EXCEPT
                    !.output.lastSuccessRef = now,
                    !.output.engineStatus =
                        IF probe.output.closure # "Running" THEN "Running" ELSE @]

\* time passes
Elapse ==
    /\ now < MaxQuietTicks * TickMs
    /\ now' = now + TickMs
    /\ UNCHANGED <<vrmRef, vrmVersionRef, landmarkFiltersRef, previousRiggedPoseRef,
                   recordedDataRef, recordingStartTimeRef, isRecording, captureSettings,
                   frames, sessionFrames, lastFrame, probe>>

NextHeartbeat ==
    \/ Animate
    \/ \E results \in DetectorResults : HeartbeatResults(results)
    \/ Elapse

\* requestAnimationFrame keeps calling animate
SpecHeartbeat == InitHeartbeat /\ [][NextHeartbeat]_vars /\ WF_vars(Animate)

(***************************************************************************)
(* The detector singleton: getGlobalHolistic and the requests made by the  *)
(* component's effects (init at mount, loop / onFrame of the sensing       *)
(* effect).  An instance is named by the order of its construction; a      *)
(* promise is named by the instance its async body constructed.            *)
(***************************************************************************)
\* mounts of the component explored
MaxMounts == 2
\* requests for the detector explored
MaxRequests == 3

\* let globalHolisticInstance = null; let globalHolisticPromise = null
NoInstance == 0

\* new Holistic(...); setOptions; the body then waits at holistic.initialize()
constructHolistic(g) ==
    [g EXCEPT !.globalHolisticPromise = g.constructed + 1,
              !.constructed = @ + 1]

\* a guard on the instance, which is still null while initialize() runs
getGlobalHolisticByInstance(g) ==
    IF g.globalHolisticInstance # NoInstance THEN g ELSE constructHolistic(g)

\* if (globalHolisticPromise) return globalHolisticPromise; otherwise the
\* async body starts and runs up to its first await
getGlobalHolistic(g) ==
    IF g.globalHolisticPromise # NoInstance THEN g ELSE constructHolistic(g)

\* const holistic = await getGlobalHolistic(): the caller waits on the
\* promise it was handed
awaitGlobalHolistic(o, kind) ==
    LET g == getGlobalHolistic(o.globals)
    IN  [o EXCEPT !.globals = g,
                  !.asked = @ + 1,
                  !.duringInit = @ \/ (/\ o.globals.globalHolisticPromise # NoInstance
                                       /\ o.globals.globalHolisticPromise \notin o.globals.settled),
                  !.slots[o.asked + 1] = [state |-> "waiting", kind |-> kind,
                                          mount |-> o.mounts,
                                          holistic |-> g.globalHolisticPromise]]

DetectorAtRest ==
    [globals |-> [globalHolisticInstance |-> NoInstance,
                  globalHolisticPromise |-> NoInstance,
                  constructed |-> 0, settled |-> {}],
     mounted |-> FALSE, mounts |-> 0, poseRef |-> NoInstance, asked |-> 0,
     duringInit |-> FALSE, sent |-> {},
     slots |-> [i \in 1..MaxRequests |->
                   [state |-> "free", kind |-> "none", mount |-> 0,
                    holistic |-> NoInstance]]]

InitDetector ==
    /\ DriverAtRest
    /\ probe = [stage |-> "unmounted", solver |-> "detector", input |-> Null,
                output |-> DetectorAtRest]

\* the component mounts: poseRef = useRef(null), init() asks for the
\* detector, and startSensing() runs loop() at once when a video file is set
Mount(videoFile) ==
    /\ ~probe.output.mounted
    /\ probe.output.mounts < MaxMounts
    /\ probe.output.asked + (IF videoFile THEN 2 ELSE 1) <= MaxRequests
    /\ \E o \in {[probe.output EXCEPT !.mounted = TRUE, !.mounts = @ + 1,
                                      !.poseRef = NoInstance]} :
       \E p \in {awaitGlobalHolistic(o, "init")} :
          probe' = [probe EXCEPT !.stage = "mounted",
                                 !.output = IF videoFile
                                            THEN awaitGlobalHolistic(p, "frame")
                                            ELSE p]
    /\ UNCHANGED driverVars

\* the cleanups of the effects: isInstanceDestroyed, isEffectDestroyed
Unmount ==
    /\ probe.output.mounted
    /\ probe' = [probe EXCEPT !.stage = "unmounted", !.output.mounted = FALSE]
    /\ UNCHANGED driverVars

\* loop() / onFrame(): poseRef.current || await getGlobalHolistic()
SenseFrame ==
    /\ probe.output.mounted
    /\ IF probe.output.poseRef # NoInstance
       THEN probe' = [probe EXCEPT !.stage = "sent",
                                   !.output.sent = @ \cup {probe.output.poseRef}]
       ELSE /\ probe.output.asked < MaxRequests
            /\ probe' = [probe EXCEPT !.stage = "asked",
                                      !.output = awaitGlobalHolistic(@, "frame")]
    /\ UNCHANGED driverVars

\* await holistic.initialize() returns: onResults is registered and
\* globalHolisticInstance = holistic; the promise resolves with holistic
InitializeDone(holistic) ==
    /\ holistic \in 1..probe.output.globals.constructed
    /\ holistic \notin probe.output.globals.settled
    /\ probe' = [probe EXCEPT !.stage = "initialized",
                              !.output.globals.globalHolisticInstance = holistic,
                              !.output.globals.settled = @ \cup {holistic}]
    /\ UNCHANGED driverVars

\* a waiting caller resumes with the instance of its promise: init() keeps
\* it in poseRef unless destroyed; loop / onFrame keep it and send a frame
\* while the video element is there
Resume(i) ==
    /\ probe.output.slots[i].state = "waiting"
    /\ probe.output.slots[i].holistic \in probe.output.globals.settled
    /\ LET slot == probe.output.slots[i]
           live == probe.output.mounted /\ slot.mount = probe.output.mounts
       IN  probe' = [probe EXCEPT
                        !.stage = "resumed",
                        !.output.slots[i].state = "received",
                        !.output.poseRef = IF live THEN slot.holistic ELSE @,
                        !.output.sent = IF live /\ slot.kind = "frame"
                                        THEN @ \cup {slot.holistic} ELSE @]
    /\ UNCHANGED driverVars

NextDetector ==
    \/ \E videoFile \in BOOLEAN : Mount(videoFile)
    \/ Unmount
    \/ SenseFrame
    \/ \E holistic \in 1..MaxRequests : InitializeDone(holistic)
    \/ \E i \in 1..MaxRequests : Resume(i)

SpecDetector == InitDetector /\ [][NextDetector]_vars

(***************************************************************************)
(* Properties of the pipeline driver (Spec)                                *)
(***************************************************************************)
RiggedFrame == lastFrame.kind = "rigged"
Teardown == lastFrame.kind \in {"swap", "stop"}
LastRecord == recordedDataRef[Len(recordedDataRef)]

\* C1: when capture stops or the avatar is swapped the driver discards the
\* retained previous rigged pose and the low-pass filter bank, so the first
\* frame rigged afterwards is blended with nothing and passes through
\* unsmoothed.
C1_TeardownDiscardsState ==
    /\ Teardown => previousRiggedPoseRef = Null /\ landmarkFiltersRef = Null
    /\ (RiggedFrame /\ sessionFrames = 1) =>
           /\ lastFrame.previous = Null
           /\ lastFrame.smoothed = lastFrame.merged

\* every smoothed axis is previous + (current - previous) * (1 - factor)
BlendedWith(smoothed, current, previous) ==
    \A k \in bodyParts \cap DOMAIN current :
        (Truthy(current[k]) /\ Truthy(Get(previous, k))) =>
            \A a \in {"x", "y", "z"} :
                smoothed[k][a] = Blend(current[k][a], previous[k][a], POSE_TEMPORAL_TENTHS)

\* C2: in a capture session the first rigged frame is output unsmoothed; on
\* every later frame each smoothed axis is previous + (current - previous) *
\* (1 - factor), and the pose the driver retains as the next previous pose is
\* the smoothed output, not the raw one.
C2_SessionSmoothing ==
    RiggedFrame =>
        /\ sessionFrames = 1 => lastFrame.smoothed = lastFrame.merged
        /\ sessionFrames > 1 =>
               /\ Truthy(lastFrame.previous)
               /\ BlendedWith(lastFrame.smoothed, lastFrame.merged, lastFrame.previous)
        /\ previousRiggedPoseRef = lastFrame.smoothed

ShortPose(arr) == Truthy(arr) /\ arr.length < POSE_POINTS

\* C3: when the pose landmark array is shorter than the expected count (17 to
\* 24 entries, hips missing) the body solver and the depth synthesizer return
\* their null/zero result: neither throws.
C3_ShortArrayHandled ==
    (/\ lastFrame.kind \in {"rigged", "unrigged", "threw"}
     /\ ShortPose(lastFrame.results.poseLandmarks) \/ ShortPose(lastFrame.results.za))
        => /\ lastFrame.worldLandmarks # Threw
           /\ lastFrame.bodyPose # Threw

Disjoint(a, b) == a \cap b = {}
Carries(pose, part) == \A k \in DOMAIN part : k \in DOMAIN pose /\ pose[k] = part[k]

\* C5: the arm, body, leg and hand solvers write pairwise disjoint bone keys
\* and the merged pose is their union: every entry of every solver's output,
\* each finger bone included, is in the merged pose unchanged, with the Face
\* block when one was computed.
C5_MergeIsUnion ==
    RiggedFrame =>
        /\ Disjoint(DOMAIN lastFrame.armPose, DOMAIN lastFrame.bodyPose)
        /\ Disjoint(DOMAIN lastFrame.armPose, DOMAIN lastFrame.handPose)
        /\ Disjoint(DOMAIN lastFrame.bodyPose, DOMAIN lastFrame.handPose)
        /\ Disjoint(LegKeys, DOMAIN lastFrame.armPose \cup DOMAIN lastFrame.bodyPose
                             \cup DOMAIN lastFrame.handPose)
        /\ Carries(lastFrame.merged, lastFrame.armPose)
        /\ Carries(lastFrame.merged, lastFrame.bodyPose)
        /\ Carries(lastFrame.merged, lastFrame.handPose)
        /\ Truthy(lastFrame.facePose) =>
               /\ "Face" \in DOMAIN lastFrame.merged
               /\ lastFrame.merged["Face"] = lastFrame.facePose

\* the hip, knee and ankle landmarks (23..28) are in the array
LegLandmarksPresent(worldLandmarks) == worldLandmarks.length >= 29

\* C6: with Lower Body Capture on and the hip, knee and ankle landmarks
\* present, every rigged frame applies the four leg bones to the avatar; with
\* it off no leg bone is rotated.
C6_LowerBodyCapture ==
    RiggedFrame =>
        /\ (/\ lastFrame.lowerBody
            /\ LegLandmarksPresent(lastFrame.worldLandmarks)
            /\ LegBones \subseteq vrmRef.bones)
               => LegBones \subseteq DOMAIN lastFrame.applied
        /\ ~lastFrame.lowerBody => Disjoint(LegBones, DOMAIN lastFrame.applied)

Supplied(results) ==
    IF Truthy(results.za) THEN results.za ELSE results.poseWorldLandmarks

\* the handler entered its try block on the last frame
EnteredFrame == lastFrame.kind \in {"rigged", "unrigged", "threw"}

\* C17: on a frame where the detector supplies world landmarks the depth
\* synthesis is not run: the solvers consume the detector's array, and the
\* filter bank is neither created nor advanced.
C17_SuppliedWorldLandmarksUsed ==
    (EnteredFrame /\ Truthy(Supplied(lastFrame.results))) =>
        /\ lastFrame.worldLandmarks = Supplied(lastFrame.results)
        /\ landmarkFiltersRef = lastFrame.filtersBefore
        /\ RiggedFrame =>
               /\ lastFrame.armPose = calculateArmRotations(Supplied(lastFrame.results))
               /\ lastFrame.bodyPose = calculateBodyRotations(Supplied(lastFrame.results))

\* a frame with supplied world landmarks is rigged while a filter bank made
\* by an earlier synthesized frame exists
C17_SuppliedAfterSynthesized ==
    /\ RiggedFrame
    /\ Truthy(Supplied(lastFrame.results))
    /\ lastFrame.filtersBefore # Null
    /\ landmarkFiltersRef = lastFrame.filtersBefore
    /\ lastFrame.worldLandmarks = lastFrame.results.za

\* the Stop Recording button was the last step
RecordingStopped == lastFrame.kind = "recording" /\ lastFrame.stopped

\* after the stop nothing is recording and no frame is pushed
CollectionEnds ==
    /\ RecordingStopped => ~isRecording /\ recordedDataRef = << >>
    /\ (RiggedFrame /\ ~isRecording) => ~lastFrame.recorded

\* a stopped recording was downloaded
RecordingDownloaded == RecordingStopped /\ lastFrame.downloaded

\* C18: whenever a recording that was started is stopped, collection of
\* frames ends and the recorded motion data is downloaded as a JSON file.
C18_StopDownloadsRecording ==
    /\ CollectionEnds
    /\ (RecordingStopped /\ lastFrame.buffered > 0) =>
           /\ lastFrame.downloaded
           /\ Len(lastFrame.download) > 0

\* the handler ran in this step
FrameHandled == frames' = frames + 1

\* the kinds of frame that yield no rigged pose: no pose landmarks, no
\* avatar, fewer than 17 world landmarks, an exception in the try block
Unposed == {"noPose", "noVrm", "unrigged", "threw"}

\* a detector result with all the pose landmarks
ValidResults(results) ==
    /\ Truthy(results.poseLandmarks)
    /\ results.poseLandmarks.length = POSE_POINTS
    /\ Truthy(Supplied(results)) => Supplied(results).length = POSE_POINTS

\* a frame that yields no rigged pose changes neither the retained pose nor
\* the recording buffer
UnposedFrameKeepsState ==
    (FrameHandled /\ lastFrame'.kind \in Unposed) =>
        UNCHANGED <<previousRiggedPoseRef, recordedDataRef>>

\* the valid frame that follows such a frame is rigged
NextValidFrameRigged ==
    (/\ FrameHandled
     /\ lastFrame.kind \in Unposed
     /\ Truthy(vrmRef)
     /\ ValidResults(lastFrame'.results)) => lastFrame'.kind = "rigged"

UnposedFramesKeepState == [][UnposedFrameKeepsState]_vars

\* C20: a detector result that yields no rigged pose (no pose landmarks, no
\* avatar attached, fewer than 17 world landmarks, or an exception raised
\* inside a solver) leaves the retained previous pose and the recording
\* buffer unchanged, and the next valid frame is still processed.
C20_UnposedFrameHarmless ==
    [][UnposedFrameKeepsState /\ NextValidFrameRigged]_vars

\* the indices of the recording buffer
Buffered == 1..Len(recordedDataRef)

\* C21: in every reachable state each frame in the recording buffer was
\* captured while recording was on and more than 1000 ms after the most
\* recent recording start, and the buffer is empty immediately after a
\* recording start and after a recording stop has been handled.
C21_BufferHoldsWarmFrames ==
    /\ Buffered # {} => isRecording
    /\ \A i \in Buffered :
          /\ recordedDataRef[i].t - recordingStartTimeRef > RECORDING_WARMUP
          /\ recordedDataRef[i].t <= now
    /\ lastFrame.kind = "recording" => recordedDataRef = << >>

\* a frame rigged after the warm-up is in the buffer
C21_WarmFrameBuffered ==
    /\ RiggedFrame
    /\ lastFrame.recorded
    /\ isRecording
    /\ Buffered # {}
    /\ LastRecord.t = now
    /\ now - recordingStartTimeRef > RECORDING_WARMUP

(***************************************************************************)
(* Properties of the solvers (SpecSolvers, SpecHands, SpecArmGap, SpecCalls) *)
(***************************************************************************)
ArmSolved == probe.stage = "output" /\ probe.solver = "arm"
FaceSolved == probe.stage = "output" /\ probe.solver = "face"

\* the shoulder-to-elbow vector of the pose is shorter than the epsilon
UpperArmShort(in) ==
    Length3(in.elbowOffset.x, in.elbowOffset.y, in.elbowOffset.z) < EPSILON

\* C4: when the shoulder-to-elbow vector of an arm is shorter than the epsilon
\* (shoulder == elbow in particular) the UpperArm triple of that arm is
\* exactly {0,0,0} on x, y (twist) and z, with or without hand landmarks.
C4_DegenerateUpperArmIsZero ==
    (ArmSolved /\ UpperArmShort(probe.input)) =>
        /\ probe.output.named.RightUpperArm = ZeroTriple
        /\ probe.output.named.LeftUpperArm = ZeroTriple
        /\ probe.output.rig.RightUpperArm = ZeroTriple
        /\ probe.output.rig.LeftUpperArm = ZeroTriple

\* the sign table of the raise/lower value: the left arm on a current rig
\* keeps it, the right arm negates it; a legacy rig does the opposite
SignTable(out, vrmVersion, value) ==
    IF isVrm0(vrmVersion)
    THEN out.RightUpperArm.z = value /\ out.LeftUpperArm.z = -value
    ELSE out.RightUpperArm.z = -value /\ out.LeftUpperArm.z = value

\* C8: for the same shoulder-to-elbow direction UpperArm.z is negated for the
\* right arm and kept for the left arm on a current-version rig, and kept for
\* the right arm and negated for the left arm on a legacy (0.x) rig.
C8_RigVersionSign ==
    ArmSolved =>
        /\ SignTable(probe.output.rig, probe.input.vrmVersion,
                     calculateArmRotationsRig(probe.input.worldLandmarks,
                                              probe.input.handLandmarks,
                                              "1").LeftUpperArm.z)
        /\ SignTable(probe.output.named, probe.input.vrmVersion,
                     calculateArmRotations(probe.input.worldLandmarks).LeftUpperArm.z)

BendInRange(out) ==
    /\ -Pi <= out.RightLowerArm.z /\ out.RightLowerArm.z <= 0
    /\ 0 <= out.LeftLowerArm.z /\ out.LeftLowerArm.z <= Pi
    /\ Abs(out.RightLowerArm.z) = Abs(out.LeftLowerArm.z)

\* C9: for all landmark inputs RightLowerArm.z lies in [-pi, 0] and
\* LeftLowerArm.z in [0, pi], and for a mirrored pose the two have equal
\* magnitude.
C9_ElbowBendSign ==
    ArmSolved => BendInRange(probe.output.named) /\ BendInRange(probe.output.rig)

LeftEAR(face) ==
    EAR(FaceAt(face, LEFT_EYE_UPPER), FaceAt(face, LEFT_EYE_LOWER),
        FaceAt(face, LEFT_EYE_INNER), FaceAt(face, LEFT_EYE_OUTER))
RightEAR(face) ==
    EAR(FaceAt(face, RIGHT_EYE_UPPER), FaceAt(face, RIGHT_EYE_LOWER),
        FaceAt(face, RIGHT_EYE_INNER), FaceAt(face, RIGHT_EYE_OUTER))

\* C10: for a face landmark array of the documented 468 points whose eye
\* aspect ratio is below the open-floor bound the blink output of that eye is
\* exactly 1.0.
C10_ShutEyeBlinksFully ==
    (FaceSolved /\ probe.input.length = FACE_MESH_POINTS) =>
        /\ LeftEAR(probe.input) < EAR_OPEN_FLOOR => probe.output.blinkLeft = 1000
        /\ RightEAR(probe.input) < EAR_OPEN_FLOOR => probe.output.blinkRight = 1000

\* the scenario arm: shoulder (0,0,0), elbow (0.3,0,0)
HorizontalArm(worldLandmarks) ==
    /\ At(worldLandmarks, RIGHT_SHOULDER) = Pt(0, 0, 0)
    /\ At(worldLandmarks, RIGHT_ELBOW) = Pt(300, 0, 0)

\* C14: for a horizontal upper arm (shoulder (0,0,0), elbow (0.3,0,0)) the
\* raise/lower output UpperArm.z is 0, the horizontal baseline of the rig, on
\* both rig versions.
C14_HorizontalArmIsBaseline ==
    (ArmSolved /\ HorizontalArm(probe.input.worldLandmarks)) =>
        /\ probe.output.named.RightUpperArm.z = 0
        /\ probe.output.rig.RightUpperArm.z = 0
HandSolved == probe.stage = "output" /\ probe.solver = "hand"

\* the hand array is absent or has fewer than 21 points
HandMissing(hand) == ~Truthy(hand) \/ hand.length < HAND_POINTS

\* the twist of the forearm-orientation fallback for the two arms of the pose
FallbackTwistRight(in) ==
    Scale(ForearmTwist(in.elbowOffset.x, in.elbowOffset.z,
                       in.forearmOffset.x, in.forearmOffset.z), 5, 10)
FallbackTwistLeft(in) ==
    -Scale(ForearmTwist(-in.elbowOffset.x, in.elbowOffset.z,
                        -in.forearmOffset.x, in.forearmOffset.z), 5, 10)

\* C12: when a hand's landmark array is absent or shorter than 21 points the
\* finger solver yields no finger entry for that hand and does not throw, and
\* the arm solver produces that arm's twist from the forearm-orientation
\* fallback.
C12_MissingHand ==
    (HandSolved /\ HandMissing(probe.input.hand)) =>
        /\ probe.output.left = Null
        /\ probe.output.right = Null
        /\ probe.output.fingers # Threw
        /\ DOMAIN probe.output.fingers = {}
        /\ probe.output.arm.RightUpperArm.y = FallbackTwistRight(probe.input)
        /\ probe.output.arm.LeftUpperArm.y = FallbackTwistLeft(probe.input)

GapSolved == probe.stage = "output" /\ probe.solver = "armGap"

RightSide(i) == i \in {RIGHT_SHOULDER, RIGHT_ELBOW, RIGHT_WRIST}
IsShoulder(i) == i \in {RIGHT_SHOULDER, LEFT_SHOULDER}

\* the side with the missing landmark is all zero
SideZeroed(out, missing) ==
    IF RightSide(missing)
    THEN out.RightUpperArm = ZeroTriple /\ out.RightLowerArm = ZeroTriple
    ELSE out.LeftUpperArm = ZeroTriple /\ out.LeftLowerArm = ZeroTriple

\* the other side is what the complete pose gives
OtherSideKept(out, complete, missing) ==
    IF RightSide(missing)
    THEN out.LeftUpperArm = complete.LeftUpperArm /\ out.LeftLowerArm = complete.LeftLowerArm
    ELSE out.RightUpperArm = complete.RightUpperArm
         /\ out.RightLowerArm = complete.RightLowerArm

\* the same but for the raise/lower value, which the rig-aware solver
\* compensates by the tilt of the shoulder line when both shoulders are there
OtherSideKeptButTilt(out, complete, missing) ==
    IF RightSide(missing)
    THEN /\ out.LeftUpperArm.x = complete.LeftUpperArm.x
         /\ out.LeftUpperArm.y = complete.LeftUpperArm.y
         /\ out.LeftLowerArm = complete.LeftLowerArm
    ELSE /\ out.RightUpperArm.x = complete.RightUpperArm.x
         /\ out.RightUpperArm.y = complete.RightUpperArm.y
         /\ out.RightLowerArm = complete.RightLowerArm

BlinkValue(v) ==
    /\ 0 <= v /\ v <= 1000
    /\ ~(FULL_BLINK_THRESHOLD < v /\ v < 1000)

\* the arrays the blink calculation solves (the others give 0)
Solvable(face) == face.length >= FACE_MIN_LENGTH

\* C15: for every face input each blink value returned is in [0, 1] and
\* never strictly between 0.65 and 1: a raw closure value above 0.65 is
\* returned as exactly 1.0.
C15_BlinkSnapped ==
    FaceSolved =>
        /\ BlinkValue(probe.output.blinkLeft)
        /\ BlinkValue(probe.output.blinkRight)
        /\ (Solvable(probe.input) /\ blinkRaw(LeftEAR(probe.input)) > FULL_BLINK_THRESHOLD)
               => probe.output.blinkLeft = 1000
        /\ (Solvable(probe.input) /\ blinkRaw(RightEAR(probe.input)) > FULL_BLINK_THRESHOLD)
               => probe.output.blinkRight = 1000

\* an eye whose raw closure is above 0.65 and below 1 is returned as shut,
\* the other eye is half open
C15_PartialBlinkSnapped ==
    /\ FaceSolved
    /\ Solvable(probe.input)
    /\ blinkRaw(LeftEAR(probe.input)) > FULL_BLINK_THRESHOLD
    /\ blinkRaw(LeftEAR(probe.input)) < 1000
    /\ probe.output.blinkLeft = 1000
    /\ probe.output.blinkRight > 0
    /\ probe.output.blinkRight < FULL_BLINK_THRESHOLD

\* the sum of the five vowel weights returned
WeightSum(face) == face.mouthA + face.mouthI + face.mouthU + face.mouthE + face.mouthO

\* each of the five divisions rounds by less than one unit
VowelCount == 5

\* C16: the five vowel weights returned are each in [0, 1] and their sum
\* never exceeds 1.0; when the raw scores sum to more than 1.0 the weights
\* returned sum to 1.0 (to the resolution of the five products).
C16_VowelWeightsNormalised ==
    FaceSolved =>
        /\ \A w \in {probe.output.mouthA, probe.output.mouthI, probe.output.mouthU,
                      probe.output.mouthE, probe.output.mouthO} : 0 <= w /\ w <= 1000
        /\ WeightSum(probe.output) <= 1000
        /\ mouthTotal(mouthScores(probe.input)) > 1000
               => WeightSum(probe.output) > 1000 - VowelCount

\* three vowels score together more than 1.0 and are scaled down
C16_ScoresScaledDown ==
    /\ FaceSolved
    /\ mouthTotal(mouthScores(probe.input)) > 1000
    /\ Cardinality({k \in {"a", "i", "u", "e", "o"} : mouthScores(probe.input)[k] > 0}) = 3
    /\ WeightSum(probe.output) > 1000 - VowelCount
    /\ WeightSum(probe.output) <= 1000
    /\ probe.output.mouthE < 500

CallSolved == probe.stage = "output" /\ probe.solver = "call"

\* the environment in which nothing is logged
Silent == [random |-> <<500, 500, 500, 500>>, versionLogged |-> TRUE]

Received ==
    {probe.output.slots[i].holistic :
        i \in {j \in 1..MaxRequests : probe.output.slots[j].state = "received"}}

\* C23: whatever the interleaving of mounts, unmounts and requests, the
\* requests made while initialize() runs included, at most one detector is
\* constructed and initialized, and every request is handed that one
C23_OneDetector ==
    /\ probe.output.globals.constructed <= 1
    /\ Cardinality(probe.output.globals.settled) <= 1
    /\ \A i \in 1..MaxRequests :
          probe.output.slots[i].state # "free" =>
             /\ probe.output.slots[i].holistic = 1
             /\ probe.output.globals.globalHolisticPromise = 1
    /\ Received \subseteq {1}
    /\ probe.output.sent \subseteq {1}
    /\ probe.output.poseRef \in {NoInstance, 1}
    /\ probe.output.globals.globalHolisticInstance \in {NoInstance, 1}

\* the component was mounted twice, a request was made while initialize()
\* ran, and callers of both mounts have been handed the detector
C23_SharedAcrossMounts ==
    /\ probe.output.mounts = MaxMounts
    /\ probe.output.duringInit
    /\ \E i, j \in 1..MaxRequests :
          /\ probe.output.slots[i].state = "received"
          /\ probe.output.slots[j].state = "received"
          /\ probe.output.slots[i].mount # probe.output.slots[j].mount
    /\ probe.output.sent # {}

(***************************************************************************)
(* Properties of the engine status (SpecHeartbeat)                         *)
(***************************************************************************)
EngineRunning == probe.output.engineStatus = "Running"
EngineStalled == probe.output.engineStatus = "Stalled"

\* no detector result for more than 2000 ms
Quiet == now - probe.output.lastSuccessRef > ENGINE_STALL_TIMEOUT

\* a result was handled in this step
ResultArrived == frames' = frames + 1

\* C22: if the engine status is Running and no detector result arrives for
\* more than 2000 ms the engine status eventually becomes Stalled; it
\* returns to Running when the next result arrives.
C22_StallDetected ==
    /\ (EngineRunning /\ Quiet) ~> (EngineStalled \/ ~Quiet)
    /\ [][ResultArrived => probe.output.engineStatus' = "Running"]_vars

(***************************************************************************)
(* Properties of the temporal smoother (SpecSmoother)                      *)
(***************************************************************************)
Smoothing == probe.solver = "smoother" /\ probe.stage = "output"

RECURSIVE Pow(_, _)
Pow(b, n) == IF n = 0 THEN 1 ELSE b * Pow(b, n - 1)

\* tolerances, in milliradians (thousandths for a Face value)
Tolerances == {100, 20}

\* one axis after n frames: current is the value fed, first the value retained
\* before the first frame, prior and out the outputs of frames n-1 and n.
\* The difference left is (current - first) * factor^n, to the three units a
\* product rounded to 0.001 on every frame can add up to; it has the sign of
\* the initial difference, is no larger than the frame before, and is within
\* a tolerance as soon as factor^n brings the initial difference within it.
Converged(current, first, prior, out, factorTenths, n) ==
    LET d == current - first
        r == current - out
    IN  /\ Abs(r * Pow(10, n) - d * Pow(factorTenths, n)) <= 3 * Pow(10, n)
        /\ d >= 0 => r >= 0
        /\ d <= 0 => r <= 0
        /\ Abs(r) <= Abs(current - prior)
        /\ \A tol \in Tolerances :
              Abs(d) * Pow(factorTenths, n) + 3 * Pow(10, n) <= tol * Pow(10, n)
                  => Abs(r) <= tol

\* C11: when the same raw pose is fed to the temporal smoother on every
\* frame, the difference left on each smoothed axis after n frames is the
\* initial difference times factor^n: it never grows, never overshoots, and
\* the output is within a given tolerance of the pose after the number of
\* frames the factor determines.
C11_SmootherConverges ==
    Smoothing =>
        LET in == probe.input
            out == probe.output
        IN  /\ \A k \in bodyParts \cap DOMAIN in.currentPose : \A a \in {"x", "y", "z"} :
                  Converged(in.currentPose[k][a], in.previousPose[k][a],
                            out.priorNamed[k][a], out.named[k][a],
                            POSE_TEMPORAL_TENTHS, out.n)
            /\ \A k \in bodyPartsRig \cap DOMAIN in.currentPose : \A a \in {"x", "y", "z"} :
                  Converged(in.currentPose[k][a], in.previousPose[k][a],
                            out.priorRig[k][a], out.rig[k][a], factorOf(k, a), out.n)
            /\ \A key \in DOMAIN in.currentPose.Face :
                  Converged(in.currentPose.Face[key], in.previousPose.Face[key],
                            out.priorRig.Face[key], out.rig.Face[key],
                            faceFactorOf(key), out.n)

\* an axis that started a radian or more away is within 0.1 of the pose fed
C11_WithinTolerance ==
    /\ Smoothing
    /\ Abs(probe.input.currentPose.RightUpperArm.x
           - probe.input.previousPose.RightUpperArm.x) >= 1000
    /\ probe.output.named.RightUpperArm.x # probe.input.currentPose.RightUpperArm.x
    /\ Abs(probe.input.currentPose.RightUpperArm.x
           - probe.output.named.RightUpperArm.x) <= 100
    /\ Abs(probe.input.currentPose.Head.z - probe.output.rig.Head.z) <= 100
    /\ probe.input.currentPose.Head.z # probe.input.previousPose.Head.z

(***************************************************************************)
(* Properties of one call of the smoother (SpecSmoothing)                  *)
(***************************************************************************)
Smoothed == probe.solver = "smoothing" /\ probe.stage = "output"

Axes == {"x", "y", "z"}

\* an entry the smoother blends: a bone of its list, or the Face block,
\* that both poses hold
Blended(parts, currentPose, previousPose, k) ==
    /\ k \in parts
    /\ Truthy(Get(currentPose, k))
    /\ Truthy(Get(previousPose, k))

\* the call left both poses as they were and returned another object, with
\* the keys of the current pose; what it does not blend is the current value
FrameEffect(effect, parts, currentPose, previousPose) ==
    /\ effect.copied
    /\ effect.currentPose = currentPose
    /\ effect.previousPose = previousPose
    /\ DOMAIN effect.returned = DOMAIN currentPose
    /\ \A k \in DOMAIN currentPose :
          IF Blended(parts, currentPose, previousPose, k)
          THEN /\ DOMAIN effect.returned[k] = DOMAIN currentPose[k]
               /\ \A a \in DOMAIN currentPose[k] :
                     ((a \notin Axes /\ k # "Face") \/ a \notin DOMAIN previousPose[k])
                        => effect.returned[k][a] = currentPose[k][a]
          ELSE effect.returned[k] = currentPose[k]

BlendedBy(returned, currentPose, previousPose, k, a, factorTenths) ==
    (Truthy(Get(currentPose, k)) /\ Truthy(Get(previousPose, k))) =>
        returned[k][a] = Blend(currentPose[k][a], previousPose[k][a], factorTenths)

\* the factors of the contract on a returned pose
FactorsPerBone(returned, currentPose, previousPose) ==
    /\ \A k \in bodyPartsRig \cap DOMAIN currentPose : \A a \in Axes :
          BlendedBy(returned, currentPose, previousPose, k, a,
                    IF a = "y" /\ k \in {"RightUpperArm", "LeftUpperArm"} THEN 1
                    ELSE IF k \in {"Neck", "Head"} THEN 6
                    ELSE POSE_TEMPORAL_TENTHS)
    /\ (Truthy(Get(currentPose, "Face")) /\ Truthy(Get(previousPose, "Face"))) =>
          /\ \A key \in {"blinkLeft", "blinkRight"} :
                returned.Face[key]
                   = Blend(currentPose.Face[key], previousPose.Face[key], 2)
          /\ \A key \in {"mouthA", "mouthI", "mouthU", "mouthE", "mouthO"} :
                returned.Face[key]
                   = Blend(currentPose.Face[key], previousPose.Face[key], 4)

\* C26: the smoother blends the Y axis of RightUpperArm and LeftUpperArm
\* with factor 0.1, every axis of Neck and Head with 0.6, blinkLeft and
\* blinkRight with 0.2, the five mouth weights with 0.4, and every other
\* smoothed axis with the general factor
C26_FactorsPerBone ==
    (Smoothed /\ Truthy(probe.input.previousPose)) =>
        /\ FactorsPerBone(probe.output.rig.returned,
                          probe.input.currentPose, probe.input.previousPose)
        /\ FactorsPerBone(probe.output.named.returned,
                          probe.input.currentPose, probe.input.previousPose)

\* the variant kept beside the rig-aware arm solver has those factors
C26_RigVariantFactors ==
    (Smoothed /\ Truthy(probe.input.previousPose)) =>
        FactorsPerBone(probe.output.rig.returned,
                       probe.input.currentPose, probe.input.previousPose)

(***************************************************************************)
(* Properties of the low-pass filter (SpecFilter)                          *)
(***************************************************************************)
Filtered == probe.solver = "filter" /\ probe.stage = "filtered"

\* C25: a low-pass filter returns its first sample unchanged; for each later
\* sample it returns alpha * previous output + (1 - alpha) * sample on each
\* numeric field, and keeps that output as its one previous value; after
\* reset() the next sample is returned unchanged
C25_LowPassFilter ==
    /\ Filtered =>
          /\ probe.output.f = [initialized |-> TRUE, hatXPrev |-> probe.output.out]
          /\ IF probe.output.n = 1 \/ probe.output.wasReset
             THEN probe.output.out = probe.input
             ELSE /\ DOMAIN probe.output.out = DOMAIN probe.input
                  /\ \A key \in DOMAIN probe.input :
                        probe.output.out[key] =
                           IF key \in DOMAIN probe.output.prior.hatXPrev
                           THEN Scale(LANDMARK_FILTER_TENTHS * probe.output.prior.hatXPrev[key]
                                      + (10 - LANDMARK_FILTER_TENTHS) * probe.input[key],
                                      1, 10)
                           ELSE probe.input[key]
    /\ (probe.solver = "filter" /\ probe.stage = "reset") =>
          probe.output.f = NewFilter

\* after a reset the filter took a sample as it was and blended the next
C25_BlendedAfterReset ==
    /\ Filtered
    /\ probe.output.resets = 1
    /\ ~probe.output.wasReset
    /\ probe.output.prior.initialized
    /\ probe.output.prior.hatXPrev \in FilterSamples
    /\ probe.output.out # probe.input
    /\ probe.output.out # probe.output.prior.hatXPrev

(***************************************************************************)
(* Properties of the synthesized world landmarks (SpecSynth)               *)
(***************************************************************************)
Synthesized == probe.solver = "synth" /\ probe.stage = "output"

\* which way an upper arm turned from the arm held level
RaiseDirection(pose, level, key) == Sign(pose[key].z - level[key].z)

\* C27: the synthesized 3D points have Y+ downward: a 2D landmark lower in
\* the image (larger y) has the larger y among the synthesized points, so
\* the arm solver turns the upper arms the same way, raised or lowered, for
\* the synthesized points as for the detector's world landmarks of the pose
C27_SynthesizedYDownward ==
    Synthesized =>
        /\ \A i, j \in 0..(POSE_POINTS - 1) :
              At(probe.input.image, i).y > At(probe.input.image, j).y
                 => At(probe.output.synthesized, i).y > At(probe.output.synthesized, j).y
        /\ \A key \in {"RightUpperArm", "LeftUpperArm"} :
              RaiseDirection(probe.output.fromSynthesized, probe.output.levelSynthesized, key)
                 = RaiseDirection(probe.output.fromWorld, probe.output.levelWorld, key)

\* the two halves apart, and the flipped order the synthesizer has
C27_SameRaiseDirection ==
    Synthesized =>
        \A key \in {"RightUpperArm", "LeftUpperArm"} :
           RaiseDirection(probe.output.fromSynthesized, probe.output.levelSynthesized, key)
              = RaiseDirection(probe.output.fromWorld, probe.output.levelWorld, key)

C27_SynthesizedYUpward ==
    Synthesized =>
        /\ \A i, j \in 0..(POSE_POINTS - 1) :
              At(probe.input.image, i).y > At(probe.input.image, j).y
                 => At(probe.output.synthesized, i).y < At(probe.output.synthesized, j).y
        /\ \A key \in {"RightUpperArm", "LeftUpperArm"} :
              RaiseDirection(probe.output.fromSynthesized, probe.output.levelSynthesized, key)
                 = -RaiseDirection(probe.output.fromWorld, probe.output.levelWorld, key)

(***************************************************************************)
(* Properties of the leg solver (SpecLegs)                                 *)
(***************************************************************************)
LegsSolved == probe.solver = "leg" /\ probe.stage = "output"

\* the landmarks of a side: hip, knee, ankle
LegLandmarks(isRight) ==
    IF isRight THEN {RIGHT_HIP, RIGHT_KNEE, RIGHT_ANKLE}
    ELSE {LEFT_HIP, LEFT_KNEE, LEFT_ANKLE}

\* C28: the leg solver returns UpperLeg.x = 0 on both sides, UpperLeg.z
\* either 0 or of magnitude at least 0.15 rad, LowerLeg.z either 0 or of
\* magnitude between 0.6 rad and pi, never positive on the right and never
\* negative on the left; a side whose hip, knee or ankle is missing is all
\* zeros
C28_LegRotationsBounded ==
    LegsSolved =>
        /\ \A k \in {"RightUpperLeg", "LeftUpperLeg"} :
              /\ probe.output[k].x = 0
              /\ probe.output[k].z = 0 \/ Abs(probe.output[k].z) >= 150
        /\ \A k \in {"RightLowerLeg", "LeftLowerLeg"} :
              \/ probe.output[k].z = 0
              \/ Abs(probe.output[k].z) >= 600 /\ Abs(probe.output[k].z) <= Pi
        /\ probe.output.RightLowerLeg.z <= 0
        /\ probe.output.LeftLowerLeg.z >= 0
        /\ probe.input.gap \in LegLandmarks(TRUE) =>
              /\ probe.output.RightUpperLeg = ZeroTriple
              /\ probe.output.RightLowerLeg = ZeroTriple
        /\ probe.input.gap \in LegLandmarks(FALSE) =>
              /\ probe.output.LeftUpperLeg = ZeroTriple
              /\ probe.output.LeftLowerLeg = ZeroTriple

\* a thigh inside the dead zone with a bent knee, the left ankle missing
C28_DeadZoneAndBentKnee ==
    /\ LegsSolved
    /\ probe.input.gap = RIGHT_ANKLE
    /\ probe.input.knee.z # 0
    /\ probe.output.LeftUpperLeg.z = 0
    /\ probe.output.LeftLowerLeg.z >= 600
    /\ probe.output.RightUpperLeg = ZeroTriple
    /\ probe.output.RightLowerLeg = ZeroTriple

(***************************************************************************)
(* Properties of the head and neck rotations (SpecHead)                    *)
(***************************************************************************)
HeadSolved == probe.solver = "head" /\ probe.stage = "output"

\* Neck has 60% and Head 40% of the pitch and the yaw of the forward
\* vector, to the unit a product rounded to 0.001 rad can differ by; the
\* two add up to the rotation; no roll
HeadSplit(pose, forward) ==
    /\ Truthy(pose.Neck)
    /\ Truthy(pose.Head)
    /\ pose.Neck.x = Scale(headPitch(forward), 6, 10)
    /\ pose.Head.x = Scale(headPitch(forward), 4, 10)
    /\ pose.Neck.y = Scale(headYaw(forward), 6, 10)
    /\ pose.Head.y = Scale(headYaw(forward), 4, 10)
    /\ Abs(pose.Neck.x + pose.Head.x - headPitch(forward)) <= 1
    /\ Abs(pose.Neck.y + pose.Head.y - headYaw(forward)) <= 1
    /\ pose.Neck.z = 0
    /\ pose.Head.z = 0

HeadShares(pose) ==
    IF probe.input.gap \in {NOSE, LEFT_EAR, RIGHT_EAR}
    THEN pose.Neck = Null /\ pose.Head = Null
    ELSE HeadSplit(pose, probe.input.forward)

\* C29: with the nose and both ears present Neck gets 60% and Head 40% of
\* the head's pitch and yaw (together the full rotation on each axis) and
\* both have roll 0; with the nose or an ear missing Neck and Head are null
C29_HeadNeckShares ==
    HeadSolved => HeadShares(probe.output.rig) /\ HeadShares(probe.output.named)

\* the variant kept beside the rig-aware arm solver splits the rotation so
C29_RigVariantShares ==
    HeadSolved => HeadShares(probe.output.rig)

(***************************************************************************)
(* Properties of the eye-gaze solver (SpecGaze)                            *)
(***************************************************************************)
GazeSolved == probe.solver = "gaze" /\ probe.stage = "output"

\* a number between -1 and 1
InGazeRange(v) == v.kind = "number" /\ v.value >= -1000 /\ v.value <= 1000

\* C30: the eye-gaze solver returns a horizontal and a vertical value within
\* [-1, 1] for every face, faces whose eye corners or eyelids coincide (an
\* eye of zero width or height) included: a number in range, never NaN
C30_GazeInRange ==
    GazeSolved =>
        /\ InGazeRange(probe.output.horizontal)
        /\ InGazeRange(probe.output.vertical)

\* with both eyes of some width and the left eye of some height it is so
C30_OpenEyesInRange ==
    (/\ GazeSolved
     /\ distance(FaceAt(probe.input, LEFT_EYE_INNER), FaceAt(probe.input, LEFT_EYE_OUTER)) > 0
     /\ distance(FaceAt(probe.input, RIGHT_EYE_INNER), FaceAt(probe.input, RIGHT_EYE_OUTER)) > 0
     /\ distance(FaceAt(probe.input, LEFT_EYE_TOP), FaceAt(probe.input, LEFT_EYE_BOTTOM)) > 0)
        => /\ InGazeRange(probe.output.horizontal)
           /\ InGazeRange(probe.output.vertical)

=============================================================================
